---- MODULE Spec2Model ----
(***************************************************************************)
(* Model of PlayerService.getSpecificStats (src/src/app.ts, lines 266-412) *)
(* of the L'Atelier tennis API: the statistics engine that computes the    *)
(* country with the best win rate, the average BMI (IMC) and the median    *)
(* height of the stored players.                                           *)
(*                                                                         *)
(* JavaScript numbers are modelled as IEEE 754 binary64 values, with the   *)
(* operations +, *, /, the comparisons and Math.round computed bit for bit.*)
(*                                                                         *)
(* Around it: the handler of GET /api/players/stats (part_016:130-158)     *)
(* serving two requests in one process, PlayerService.createPlayer         *)
(* (app.ts:129-186) behind POST /api/players (part_016:339-408), and the   *)
(* dispatch of a request to the routes of the players router, with        *)
(* GET /api/players/:id (part_016:547-589) and getPlayerById               *)
(* (app.ts:226-261); the database connection (part_013:158-402) and the    *)
(* startup and shutdown of the process (server.ts:15-120).                 *)
(***************************************************************************)
EXTENDS Integers, Sequences, FiniteSets, TLC

VARIABLES
    db,            \* the stored players, as Player.find({}).lean() yields them
    pc,            \* position of the getSpecificStats call
    players,       \* const players (app.ts:271)
    i,             \* index of the next player of players.forEach (app.ts:282)
    countryStats,  \* const countryStats (app.ts:278), entries in insertion order
    j,             \* index of the next entry of Object.entries(...).forEach (app.ts:307)
    bestCountry,   \* let bestCountry (app.ts:299)
    imcValues,     \* const imcValues (app.ts:325)
    averageIMC,    \* const averageIMC (app.ts:359)
    medianHeight,  \* let medianHeight (app.ts:366)
    log,           \* what the call has handed to the logger, in order
    outcome,       \* what the call has returned or thrown
    http,          \* the HTTP request that is followed step by step, and its response
    other,         \* a second request for the statistics, served by the same process
    creates,       \* the requests to create a player, one record per request
    indexes,       \* the fields of the players collection that have a unique index
    isConnected,   \* DatabaseConnection.isConnected (part_013:160)
    handlers,      \* the owners of the handlers of SIGINT and SIGTERM, as registered
    connectCall,   \* the call of database.connect() in progress
    disconnects,   \* the callers of database.disconnect() awaiting the driver
    server,        \* startServer: its position, the HTTP server, the timer, the exit
    trace          \* the calls received and the calls made to the collaborators

vars == <<db, pc, players, i, countryStats, j, bestCountry, imcValues,
          averageIMC, medianHeight, log, outcome, http, other, creates, indexes,
          isConnected, handlers, connectCall, disconnects, server, trace>>

\* the requests served around the call of getSpecificStats, and the process
requestVars == <<http, other, creates, indexes,
                 isConnected, handlers, connectCall, disconnects, server, trace>>

----------------------------------------------------------------------------
(* Bounds of the model *)

MaxWinPlayers == 4      \* longest record set of the win-rate family
MaxAnthroPlayers == 3   \* longest record set of the anthropometric family
MaxHttpPlayers == 2     \* most players stored when a request is served
MaxStored == 1          \* most players stored before the creation requests

----------------------------------------------------------------------------
(* JavaScript numbers: IEEE 754 binary64, finite values.                   *)
(* A number is [s, e, m]: sign s in {-1, 0, 1}, and for s # 0 the value is *)
(* s * m * 2^e with m a 53-bit natural (2^52 <= m < 2^53); a natural is a  *)
(* sequence of limbs in base 2^15, least significant first, without high   *)
(* zero limbs.  Every operation rounds to nearest, ties to even.           *)

Base == 2 ^ 15
MantissaBits == 52 + 1

\* 2^k for k in 0..30
Pow2(k) == 2 ^ k

RECURSIVE BNorm(_)
BNorm(a) ==
    IF a = <<>> THEN a
    ELSE IF a[Len(a)] = 0 THEN BNorm(SubSeq(a, 1, Len(a) - 1)) ELSE a

Limb(a, k) == IF k <= Len(a) THEN a[k] ELSE 0

\* the natural k (0 <= k < 2^31) in limbs
BNat(k) == BNorm(<<k % Base, (k \div Base) % Base, k \div (Base * Base)>>)

RECURSIVE BCmpFrom(_, _, _)
BCmpFrom(a, b, k) ==
    IF k = 0 THEN 0
    ELSE IF a[k] > b[k] THEN 1
    ELSE IF a[k] < b[k] THEN -1
    ELSE BCmpFrom(a, b, k - 1)

\* -1, 0 or 1 as a < b, a = b or a > b
BCmp(a, b) ==
    IF Len(a) > Len(b) THEN 1
    ELSE IF Len(a) < Len(b) THEN -1
    ELSE BCmpFrom(a, b, Len(a))

RECURSIVE BAddFrom(_, _, _, _)
BAddFrom(a, b, k, c) ==
    IF k > Len(a) /\ k > Len(b) THEN (IF c = 0 THEN <<>> ELSE <<c>>)
    ELSE LET x == Limb(a, k) + Limb(b, k) + c
         IN  <<x % Base>> \o BAddFrom(a, b, k + 1, x \div Base)

BAdd(a, b) == BAddFrom(a, b, 1, 0)

RECURSIVE BSubFrom(_, _, _, _)
BSubFrom(a, b, k, c) ==
    IF k > Len(a) THEN <<>>
    ELSE LET x == a[k] - Limb(b, k) - c
         IN  <<x % Base>> \o BSubFrom(a, b, k + 1, IF x < 0 THEN 1 ELSE 0)

\* a - b, for a >= b
BSub(a, b) == BNorm(BSubFrom(a, b, 1, 0))

RECURSIVE BMulSmallFrom(_, _, _, _)
BMulSmallFrom(a, c, k, carry) ==
    IF k > Len(a) THEN (IF carry = 0 THEN <<>> ELSE <<carry>>)
    ELSE LET x == a[k] * c + carry
         IN  <<x % Base>> \o BMulSmallFrom(a, c, k + 1, x \div Base)

\* a * c, for 0 <= c <= 2^15
BMulSmall(a, c) == BNorm(BMulSmallFrom(a, c, 1, 0))

ShiftLimbs(a, q) == IF a = <<>> THEN a ELSE [x \in 1..q |-> 0] \o a

RECURSIVE BMulFrom(_, _, _)
BMulFrom(a, b, k) ==
    IF k > Len(b) THEN <<>>
    ELSE BAdd(ShiftLimbs(BMulSmall(a, b[k]), k - 1), BMulFrom(a, b, k + 1))

BMul(a, b) == BMulFrom(a, b, 1)

\* a * 2^s
BShl(a, s) == ShiftLimbs(BMulSmall(a, Pow2(s % 15)), s \div 15)

RECURSIVE BDivSmallFrom(_, _, _, _)
BDivSmallFrom(a, c, k, r) ==
    IF k = 0 THEN [q |-> <<>>, r |-> r]
    ELSE LET cur == r * Base + a[k]
             rest == BDivSmallFrom(a, c, k - 1, cur % c)
         IN  [q |-> Append(rest.q, cur \div c), r |-> rest.r]

\* quotient and remainder of a by c, for 0 < c <= 2^15
BDivSmall(a, c) ==
    LET d == BDivSmallFrom(a, c, Len(a), 0)
    IN  [q |-> BNorm(d.q), r |-> d.r]

\* floor(a / 2^s)
BShr(a, s) ==
    IF s \div 15 >= Len(a) THEN <<>>
    ELSE BDivSmall(SubSeq(a, s \div 15 + 1, Len(a)), Pow2(s % 15)).q

\* the number of bits of a
BitLen(a) ==
    IF a = <<>> THEN 0
    ELSE 15 * (Len(a) - 1) + Cardinality({k \in 0..14 : Pow2(k) <= a[Len(a)]})

BOdd(a) == a # <<>> /\ a[1] % 2 = 1

\* the digit of the quotient of r by d: the largest c <= q with d * c <= r
RECURSIVE BDigit(_, _, _)
BDigit(r, d, q) ==
    IF BCmp(BMulSmall(d, q), r) > 0 THEN BDigit(r, d, q - 1) ELSE q

\* k steps of the long division in base 2^15 by d, from the remainder r
\* (r < d, the high limb of d at least 2^14): the k limbs of the quotient of
\* r * 2^(15 * k) by d, and the remainder
RECURSIVE BDivSteps(_, _, _)
BDivSteps(r, d, k) ==
    IF k = 0 THEN [q |-> <<>>, r |-> r]
    ELSE LET r1 == ShiftLimbs(r, 1)
             est == (Limb(r1, Len(d) + 1) * Base + Limb(r1, Len(d))) \div d[Len(d)]
             c == BDigit(r1, d, IF est >= Base THEN Base - 1 ELSE est)
             rest == BDivSteps(BSub(r1, BMulSmall(d, c)), d, k - 1)
         IN  [q |-> Append(rest.q, c), r |-> rest.r]

\* quotient of a * 2^(15 * k) by d, and whether the remainder is 0, for
\* 0 < a < 2 * d
BDivShifted(a, d, k) ==
    LET s == 15 * Len(d) - BitLen(d)
        a1 == BShl(a, s)
        d1 == BShl(d, s)
        first == BCmp(a1, d1) >= 0
        rest == BDivSteps(IF first THEN BSub(a1, d1) ELSE a1, d1, k)
    IN  [q |-> BNorm(Append(rest.q, IF first THEN 1 ELSE 0)), exact |-> rest.r = <<>>]

Zero == [s |-> 0, e |-> 0, m |-> <<>>]

\* floor(n / 2^s) rounded to nearest, ties to even; sticky: bits were lost below n
RoundShift(n, s, sticky) ==
    LET q == BShr(n, s)
        c == BCmp(BSub(n, BShl(q, s)), BShl(<<1>>, s - 1))
    IN  IF c > 0 \/ (c = 0 /\ (sticky \/ BOdd(q))) THEN BAdd(q, <<1>>) ELSE q

\* the number nearest to s * n * 2^e (n with at least 55 bits when sticky)
FRound(s, n, e, sticky) ==
    LET len == BitLen(n)
    IN  IF n = <<>> \/ s = 0 THEN Zero
        ELSE IF len <= MantissaBits
        THEN [s |-> s, e |-> e - (MantissaBits - len), m |-> BShl(n, MantissaBits - len)]
        ELSE LET r == RoundShift(n, len - MantissaBits, sticky)
             IN  IF BitLen(r) > MantissaBits
                 THEN [s |-> s, e |-> e + len - MantissaBits + 1, m |-> BShr(r, 1)]
                 ELSE [s |-> s, e |-> e + len - MantissaBits, m |-> r]

Sign(k) == IF k > 0 THEN 1 ELSE IF k < 0 THEN -1 ELSE 0

\* the integer k as a number
F(k) == FRound(Sign(k), BNat(IF k < 0 THEN -k ELSE k), 0, FALSE)

\* a * b
FMul(a, b) == FRound(a.s * b.s, BMul(a.m, b.m), a.e + b.e, FALSE)

\* the odd part c and the exponent t of a mantissa m = c * 2^t whose two low
\* limbs are zero
OddPart(m) ==
    LET x == m[3] + Base * m[4]
        t == Cardinality({k \in 1..22 : x % Pow2(k) = 0})
    IN  [c |-> x \div Pow2(t), t |-> 30 + t]

\* a / b, for b # 0: 60 bits of the quotient of the mantissas, then a bit
\* that tells whether the division left a remainder
FDiv(a, b) ==
    IF a.s = 0 THEN Zero
    ELSE LET odd == OddPart(b.m)
             small == b.m[1] = 0 /\ b.m[2] = 0 /\ odd.c <= Base
             ds == BDivSmall(BShl(a.m, 60 - odd.t), odd.c)
             d == IF small THEN [q |-> ds.q, exact |-> ds.r = 0]
                  ELSE BDivShifted(a.m, b.m, 4)
         IN  FRound(a.s * b.s,
                    BAdd(BShl(d.q, 1), IF d.exact THEN <<>> ELSE <<1>>),
                    a.e - b.e - 61, FALSE)

\* -1, 0 or 1 as |a| < |b|, |a| = |b| or |a| > |b|
FCmpAbs(a, b) ==
    IF a.s = 0 \/ b.s = 0 THEN (IF a.s # 0 THEN 1 ELSE IF b.s # 0 THEN -1 ELSE 0)
    ELSE IF a.e > b.e THEN 1
    ELSE IF a.e < b.e THEN -1
    ELSE BCmp(a.m, b.m)

\* -1, 0 or 1 as a < b, a = b or a > b
FCmp(a, b) ==
    IF a.s # b.s THEN (IF a.s > b.s THEN 1 ELSE -1)
    ELSE a.s * FCmpAbs(a, b)

FGt(a, b) == FCmp(a, b) > 0
FLeq(a, b) == FCmp(a, b) <= 0

\* a + b
FAdd(a, b) ==
    IF a.s = 0 THEN b
    ELSE IF b.s = 0 THEN a
    ELSE LET e0 == IF a.e < b.e THEN a.e ELSE b.e
             x == BShl(a.m, a.e - e0)
             y == BShl(b.m, b.e - e0)
         IN  IF a.s = b.s THEN FRound(a.s, BAdd(x, y), e0, FALSE)
             ELSE IF BCmp(x, y) >= 0 THEN FRound(a.s, BSub(x, y), e0, FALSE)
             ELSE FRound(b.s, BSub(y, x), e0, FALSE)

\* Math.round(x): the integer nearest to x, halves towards +Infinity
MathRound(x) ==
    IF x.s = 0 \/ x.e >= 0 THEN x
    ELSE LET q == BShr(x.m, -x.e)
             c == BCmp(BSub(x.m, BShl(q, -x.e)), BShl(<<1>>, -x.e - 1))
             up == IF x.s > 0 THEN c >= 0 ELSE c > 0
         IN  FRound(x.s, IF up THEN BAdd(q, <<1>>) ELSE q, 0, FALSE)

\* Math.round(x * 100) / 100 (app.ts:315 and app.ts:391)
Round2(x) == FDiv(MathRound(FMul(x, F(100))), F(100))

----------------------------------------------------------------------------
(* The stored player records (IPlayer, as far as getSpecificStats reads it) *)

MkPlayer(k, code, last, weight, height) ==
    [id |-> k, firstname |-> "P", lastname |-> ToString(k),
     country |-> [code |-> code],
     data |-> [weight |-> weight, height |-> height, last |-> last]]

\* Win-rate family: two countries, players with 0 or 1 win, valid weight and height
WinChoices == {"ESP", "USA"} \X {<<0, 0, 0, 0, 0>>, <<1, 0, 0, 0, 0>>}

WinInputs ==
    UNION { { [k \in 1..n |-> MkPlayer(k, f[k][1], f[k][2], 80000, 180)] :
                f \in [1..n -> WinChoices] } : n \in 1..MaxWinPlayers }

\* Anthropometric family: valid, zero and negative weights and heights
AnthroPairs == { <<80000, 180>>, <<40000, 160>>, <<0, 180>>, <<80000, 0>>,
                 <<-70000, 175>>, <<60000, -160>> }

\* players of USA with each pair, and one player of the country "10"
AnthroChoices ==
    ({ <<"USA", <<1, 1, 0, 1, 0>>>> } \X AnthroPairs)
        \cup { << <<"10", <<1, 1, 1, 1, 0>>>>, <<70000, 175>> >> }

AnthroInputs ==
    UNION { { [k \in 1..n |-> MkPlayer(k, f[k][1][1], f[k][1][2], f[k][2][1], f[k][2][2])] :
                f \in [1..n -> AnthroChoices] } : n \in 0..MaxAnthroPlayers }

Inputs == WinInputs \cup AnthroInputs

\* A large record set: 3 players of ESP with 5 wins in 15 matches, then 2003
\* players of USA with 3338 wins in 10015 matches
LargeInput ==
    [k \in 1..2006 |->
        MkPlayer(k, IF k <= 3 THEN "ESP" ELSE "USA",
                 IF k \in {1, 2} \/ (k > 3 /\ k <= 1338)
                 THEN <<1, 1, 0, 0, 0>> ELSE <<1, 0, 0, 0, 0>>,
                 80000, 180)]

\* Two countries with 2 wins in 15 matches each: 3 players of ESP, then 3 of USA
TieInput ==
    [k \in 1..6 |->
        MkPlayer(k, IF k <= 3 THEN "ESP" ELSE "USA",
                 IF k \in {1, 4} THEN <<0, 0, 0, 0, 0>> ELSE <<1, 0, 0, 0, 0>>,
                 80000, 180)]

\* One country with 23 wins in 160 matches (14.375 %): 32 players of ESP
HalfwayInput ==
    [k \in 1..32 |->
        MkPlayer(k, "ESP",
                 IF k <= 23 THEN <<1, 0, 0, 0, 0>> ELSE <<0, 0, 0, 0, 0>>,
                 80000, 180)]

\* Failures of the read of all players (the rejected promise of Player.find)
DbErrors == {"Database connection failed"}

\* Values of new Date().toISOString()
Timestamps == {"2024-01-01T00:00:00.000Z", "2024-01-01T00:00:01.000Z"}

----------------------------------------------------------------------------
(* Constants of the code *)

EmptyMessage == "Aucun joueur trouvé dans la base de données"
NoValidMessage == "Aucun joueur avec des données valides pour calculer l'IMC"

Undefined == [undefined |-> TRUE]
Pending == [kind |-> "pending"]

\* let bestCountry = { code: "", ratio: 0, wins: 0, total: 0, players: [] }
InitialBestCountry ==
    [code |-> "", ratio |-> F(0), wins |-> 0, total |-> 0, players |-> <<>>]

----------------------------------------------------------------------------
(* 1. Win ratio by country *)

\* player.data.last.reduce((sum, result) => sum + result, 0)
RECURSIVE SumLast(_)
SumLast(last) ==
    IF last = <<>> THEN 0
    ELSE SumLast(SubSeq(last, 1, Len(last) - 1)) + last[Len(last)]

\* `${player.firstname} ${player.lastname}`
FullName(p) == p.firstname \o " " \o p.lastname

HasKey(cs, code) == \E k \in 1..Len(cs) : cs[k].code = code

\* a variant of the callback that assigns the wins and the total of the
\* player to the aggregate where the code adds them
AddPlayerAssigning(cs, p) ==
    LET code == p.country.code
        cs1 == IF ~HasKey(cs, code)
               THEN Append(cs, [code |-> code, wins |-> 0, total |-> 0, players |-> <<>>])
               ELSE cs
        at == CHOOSE k \in 1..Len(cs1) : cs1[k].code = code
    IN  [cs1 EXCEPT ![at] = [code |-> code,
                             wins |-> SumLast(p.data.last),
                             total |-> Len(p.data.last),
                             players |-> Append(@.players, FullName(p))]]

\* a variant of the callback that adds one to the total for each player
AddPlayerCountingPlayers(cs, p) ==
    LET code == p.country.code
        cs1 == IF ~HasKey(cs, code)
               THEN Append(cs, [code |-> code, wins |-> 0, total |-> 0, players |-> <<>>])
               ELSE cs
        at == CHOOSE k \in 1..Len(cs1) : cs1[k].code = code
    IN  [cs1 EXCEPT ![at] = [code |-> code,
                             wins |-> @.wins + SumLast(p.data.last),
                             total |-> @.total + 1,
                             players |-> Append(@.players, FullName(p))]]

\* one call of the players.forEach callback (app.ts:282-296)
AddPlayer(cs, p) ==
    LET code == p.country.code
        wins == SumLast(p.data.last)
        total == Len(p.data.last)
        cs1 == IF ~HasKey(cs, code)
               THEN Append(cs, [code |-> code, wins |-> 0, total |-> 0, players |-> <<>>])
               ELSE cs
        at == CHOOSE k \in 1..Len(cs1) : cs1[k].code = code
    IN  [cs1 EXCEPT ![at] = [code |-> code,
                             wins |-> @.wins + wins,
                             total |-> @.total + total,
                             players |-> Append(@.players, FullName(p))]]

\* players.forEach(...) over ps[lo..hi], in order, from the aggregates cs
\* (the range is split in halves to keep the evaluation shallow, and the
\* test first = first has the first half evaluated before the second)
RECURSIVE ForEachPlayer(_, _, _, _)
ForEachPlayer(cs, ps, lo, hi) ==
    IF lo > hi THEN cs
    ELSE IF lo = hi THEN AddPlayer(cs, ps[lo])
    ELSE LET mid == (lo + hi) \div 2
             first == ForEachPlayer(cs, ps, lo, mid)
         IN  IF first = first THEN ForEachPlayer(first, ps, mid + 1, hi) ELSE first

\* the array index a property key denotes, -1 when it is not an array index
\* (a canonical numeric string); the keys of the model are listed
ArrayIndex(code) == CASE code = "10" -> 10 [] OTHER -> -1

\* Object.entries(countryStats): integer-like keys in ascending numeric order,
\* then the other keys in insertion order
ObjectEntries(cs) ==
    SortSeq(SelectSeq(cs, LAMBDA e : ArrayIndex(e.code) >= 0),
            LAMBDA a, b : ArrayIndex(a.code) < ArrayIndex(b.code))
    \o SelectSeq(cs, LAMBDA e : ArrayIndex(e.code) < 0)

\* const ratio = stats.total > 0 ? (stats.wins / stats.total) * 100 : 0
Ratio(stats) ==
    IF stats.total > 0
    THEN FMul(FDiv(F(stats.wins), F(stats.total)), F(100))
    ELSE F(0)

\* a variant of the callback that replaces the best country only by a
\* country of a greater ratio
ConsiderGreaterOnly(best, e) ==
    IF FGt(Ratio(e), best.ratio)
    THEN [code |-> e.code, ratio |-> Round2(Ratio(e)), wins |-> e.wins,
          total |-> e.total, players |-> e.players]
    ELSE best

\* a variant of the callback that keeps the players of the country it replaces
ConsiderKeepingPlayers(best, e) ==
    IF FGt(Ratio(e), best.ratio) \/ (Ratio(e) = best.ratio /\ best.code = "")
    THEN [code |-> e.code, ratio |-> Round2(Ratio(e)), wins |-> e.wins,
          total |-> e.total,
          players |-> IF best.code = "" THEN e.players ELSE best.players]
    ELSE best

\* one call of the Object.entries(countryStats).forEach callback (app.ts:307-321)
Consider(best, e) ==
    LET ratio == Ratio(e)
    IN  IF FGt(ratio, best.ratio) \/ (ratio = best.ratio /\ best.code = "")
        THEN [code |-> e.code, ratio |-> Round2(ratio), wins |-> e.wins,
              total |-> e.total, players |-> e.players]
        ELSE best

----------------------------------------------------------------------------
(* 2. Average IMC *)

\* a variant of the callback that tests weightKg < 0 where the code tests
\* weightKg <= 0
ImcOfZeroWeight(p) ==
    LET weightKg == FDiv(F(p.data.weight), F(1000))
        heightM == FDiv(F(p.data.height), F(100))
    IN  IF FCmp(weightKg, F(0)) < 0 THEN Undefined
        ELSE IF FLeq(heightM, F(0)) THEN Undefined
        ELSE FDiv(weightKg, FMul(heightM, heightM))

\* the players.map callback (app.ts:326-350): the IMC, or null
ImcOf(p) ==
    LET weightKg == FDiv(F(p.data.weight), F(1000))
        heightM == FDiv(F(p.data.height), F(100))
    IN  IF FLeq(weightKg, F(0)) THEN Undefined
        ELSE IF FLeq(heightM, F(0)) THEN Undefined
        ELSE FDiv(weightKg, FMul(heightM, heightM))

\* a variant that warns about an invalid weight only
ImcWarningWeightOnly(p) ==
    IF FLeq(FDiv(F(p.data.weight), F(1000)), F(0))
    THEN <<[level |-> "warn", message |-> "Poids invalide détecté",
            playerId |-> p.id, playerName |-> FullName(p)]>>
    ELSE <<>>

\* the logger.warn call of the players.map callback, <<>> when there is none
ImcWarning(p) ==
    LET weightKg == FDiv(F(p.data.weight), F(1000))
        heightM == FDiv(F(p.data.height), F(100))
    IN  IF FLeq(weightKg, F(0))
        THEN <<[level |-> "warn", message |-> "Poids invalide détecté",
                playerId |-> p.id, playerName |-> FullName(p)]>>
        ELSE IF FLeq(heightM, F(0))
        THEN <<[level |-> "warn", message |-> "Taille invalide détectée",
                playerId |-> p.id, playerName |-> FullName(p)]>>
        ELSE <<>>

\* a variant that keeps no IMC value when a record is invalid
ImcValuesAllOrNone(ps) ==
    IF \E k \in 1..Len(ps) : ImcOf(ps[k]) = Undefined THEN <<>>
    ELSE [k \in 1..Len(ps) |-> ImcOf(ps[k])]

\* players.map(...).filter((imc) => imc !== null)
ImcValues(ps) ==
    SelectSeq([k \in 1..Len(ps) |-> ImcOf(ps[k])], LAMBDA v : v # Undefined)

\* the warnings of players.map(...), in the order of the players
RECURSIVE ImcWarningsFrom(_, _, _)
ImcWarningsFrom(ps, lo, hi) ==
    IF lo > hi THEN <<>>
    ELSE IF lo = hi THEN ImcWarning(ps[lo])
    ELSE LET mid == (lo + hi) \div 2
         IN  ImcWarningsFrom(ps, lo, mid) \o ImcWarningsFrom(ps, mid + 1, hi)

ImcWarnings(ps) == ImcWarningsFrom(ps, 1, Len(ps))

\* imcValues.reduce((sum, imc) => sum + imc, acc) over s[lo..hi], from left
\* to right (the range is split in halves to keep the evaluation shallow,
\* and the test first = first has the first half evaluated before the second)
RECURSIVE SumFrom(_, _, _, _)
SumFrom(acc, s, lo, hi) ==
    IF lo > hi THEN acc
    ELSE IF lo = hi THEN FAdd(acc, s[lo])
    ELSE LET mid == (lo + hi) \div 2
             first == SumFrom(acc, s, lo, mid)
         IN  IF first = first THEN SumFrom(first, s, mid + 1, hi) ELSE first

\* imcValues.reduce(...) / imcValues.length (app.ts:359-360)
Average(s) == FDiv(SumFrom(F(0), s, 1, Len(s)), F(Len(s)))

----------------------------------------------------------------------------
(* 3. Median height *)

\* a variant that leaves the heights in the order of the records
HeightsUnsorted(ps) == [k \in 1..Len(ps) |-> ps[k].data.height]

\* players.map((player) => player.data.height).sort((a, b) => a - b)
SortedHeights(ps) ==
    SortSeq([k \in 1..Len(ps) |-> ps[k].data.height], LAMBDA a, b : a < b)

\* app.ts:366-381
Median(heights) ==
    IF Len(heights) % 2 = 0
    THEN IF Len(heights) \div 2 - 1 >= 0 /\ Len(heights) \div 2 < Len(heights)
         THEN FDiv(FAdd(F(heights[Len(heights) \div 2]),
                        F(heights[Len(heights) \div 2 + 1])), F(2))
         ELSE F(0)
    ELSE F(heights[(Len(heights) \div 2) + 1])

----------------------------------------------------------------------------
(* PlayerService.getSpecificStats as a state machine *)

LogEntry(level, message) ==
    [level |-> level, message |-> message, playerId |-> 0, playerName |-> ""]

\* the catch block (app.ts:406-411): the error is logged and thrown again
Throw(message) ==
    /\ log' = Append(log, [level |-> "error",
                           message |-> "Erreur lors du calcul des statistiques spécifiques",
                           error |-> message])
    /\ outcome' = [kind |-> "threw", message |-> message]
    /\ pc' = "threw"

InitCall ==
    /\ pc = "idle"
    /\ players = <<>>
    /\ i = 1
    /\ countryStats = <<>>
    /\ j = 1
    /\ bestCountry = InitialBestCountry
    /\ imcValues = <<>>
    /\ averageIMC = Undefined
    /\ medianHeight = Undefined
    /\ log = <<>>
    /\ outcome = Pending

\* playerSchema.index({ id: 1 }, { unique: true }) (part_011:234), the only
\* unique index the schema declares
SchemaIndexes == {"id"}

\* no HTTP request is being served
NoRequest == [pc |-> "none"]

\* getSpecificStats is called directly, as the unit tests call it
DirectCall ==
    /\ http = NoRequest
    /\ other = NoRequest
    /\ creates = <<>>
    /\ indexes = SchemaIndexes
    /\ isConnected = FALSE
    /\ handlers = <<>>
    /\ connectCall = [pc |-> "none"]
    /\ disconnects = <<>>
    /\ server = [pc |-> "none"]
    /\ trace = <<>>

Init == db \in Inputs /\ InitCall /\ DirectCall

\* getSpecificStats is called: logger.debug, then Player.find({}).lean() is awaited
CallGetSpecificStats ==
    /\ pc = "idle"
    /\ pc' = "find"
    /\ log' = Append(log, LogEntry("debug", "Getting specific statistics"))
    /\ UNCHANGED <<db, players, i, countryStats, j, bestCountry, imcValues,
                   averageIMC, medianHeight, outcome>>
    /\ UNCHANGED requestVars

\* the read resolves with the stored players
FindResolves ==
    /\ pc = "find"
    /\ players' = db
    /\ pc' = "check"
    /\ UNCHANGED <<db, i, countryStats, j, bestCountry, imcValues,
                   averageIMC, medianHeight, log, outcome>>
    /\ UNCHANGED requestVars

\* the read rejects: the catch block logs the error and throws it again
FindRejects ==
    /\ pc = "find"
    /\ \E e \in DbErrors : Throw(e)
    /\ UNCHANGED <<db, players, i, countryStats, j, bestCountry, imcValues,
                   averageIMC, medianHeight>>
    /\ UNCHANGED requestVars

\* a variant without the test of players.length
CheckEmptyOmitted ==
    /\ pc = "check"
    /\ countryStats' = <<>>
    /\ i' = 1
    /\ pc' = "aggregate"
    /\ UNCHANGED <<db, players, j, bestCountry, imcValues, averageIMC, medianHeight,
                   log, outcome>>
    /\ UNCHANGED requestVars

\* if (players.length === 0) throw (app.ts:273-275); else countryStats = {}
CheckEmpty ==
    /\ pc = "check"
    /\ IF Len(players) = 0
       THEN /\ Throw(EmptyMessage)
            /\ UNCHANGED <<countryStats, i>>
       ELSE /\ countryStats' = <<>>
            /\ i' = 1
            /\ pc' = "aggregate"
            /\ UNCHANGED <<log, outcome>>
    /\ UNCHANGED <<db, players, j, bestCountry, imcValues, averageIMC, medianHeight>>
    /\ UNCHANGED requestVars

\* players.forEach(...) (app.ts:282-296), then let bestCountry = {...}
\* (app.ts:299-305)
Aggregate ==
    /\ pc = "aggregate"
    /\ countryStats' = ForEachPlayer(countryStats, players, 1, Len(players))
    /\ i' = Len(players) + 1
    /\ bestCountry' = InitialBestCountry
    /\ j' = 1
    /\ pc' = "select"
    /\ UNCHANGED <<db, players, imcValues, averageIMC, medianHeight, log, outcome>>
    /\ UNCHANGED requestVars

\* one iteration of Object.entries(countryStats).forEach (app.ts:307-321)
SelectStep ==
    /\ pc = "select"
    /\ j <= Len(ObjectEntries(countryStats))
    /\ bestCountry' = Consider(bestCountry, ObjectEntries(countryStats)[j])
    /\ j' = j + 1
    /\ UNCHANGED <<db, pc, players, i, countryStats, imcValues, averageIMC,
                   medianHeight, log, outcome>>
    /\ UNCHANGED requestVars

\* const imcValues = players.map(...).filter(...) (app.ts:325-351)
ComputeImc ==
    /\ pc = "select"
    /\ j > Len(ObjectEntries(countryStats))
    /\ imcValues' = ImcValues(players)
    /\ log' = log \o ImcWarnings(players)
    /\ pc' = "imc"
    /\ UNCHANGED <<db, players, i, countryStats, j, bestCountry, averageIMC,
                   medianHeight, outcome>>
    /\ UNCHANGED requestVars

\* a variant that takes 0 for the average of no IMC value where the code throws
CheckImcDefaultZero ==
    /\ pc = "imc"
    /\ averageIMC' = IF Len(imcValues) = 0 THEN F(0) ELSE Average(imcValues)
    /\ pc' = "median"
    /\ UNCHANGED <<db, players, i, countryStats, j, bestCountry, imcValues,
                   medianHeight, log, outcome>>
    /\ UNCHANGED requestVars

\* if (imcValues.length === 0) throw; const averageIMC = ... (app.ts:353-360)
CheckImc ==
    /\ pc = "imc"
    /\ IF Len(imcValues) = 0
       THEN /\ Throw(NoValidMessage)
            /\ UNCHANGED averageIMC
       ELSE /\ averageIMC' = Average(imcValues)
            /\ pc' = "median"
            /\ UNCHANGED <<log, outcome>>
    /\ UNCHANGED <<db, players, i, countryStats, j, bestCountry, imcValues,
                   medianHeight>>
    /\ UNCHANGED requestVars

\* the median of the heights (app.ts:363-381)
ComputeMedian ==
    /\ pc = "median"
    /\ medianHeight' = Median(SortedHeights(players))
    /\ pc' = "assemble"
    /\ UNCHANGED <<db, players, i, countryStats, j, bestCountry, imcValues,
                   averageIMC, log, outcome>>
    /\ UNCHANGED requestVars

\* a variant that counts in totalPlayers the players that have an IMC value
StatsCountingImc(now) ==
    [bestWinRateCountry |->
        [country |-> bestCountry.code,
         winRate |-> bestCountry.ratio,
         wins |-> bestCountry.wins,
         totalMatches |-> bestCountry.total,
         players |-> bestCountry.players],
     averageIMC |-> Round2(averageIMC),
     medianHeight |-> medianHeight,
     totalPlayers |-> Len(imcValues),
     calculatedAt |-> now]

\* const stats = {...} (app.ts:383-395)
Stats(now) ==
    [bestWinRateCountry |->
        [country |-> bestCountry.code,
         winRate |-> bestCountry.ratio,
         wins |-> bestCountry.wins,
         totalMatches |-> bestCountry.total,
         players |-> bestCountry.players],
     averageIMC |-> Round2(averageIMC),
     medianHeight |-> medianHeight,
     totalPlayers |-> Len(players),
     calculatedAt |-> now]

\* the result is assembled, logged and returned (app.ts:383-405)
ReturnStats ==
    /\ pc = "assemble"
    /\ \E now \in Timestamps :
          outcome' = [kind |-> "returned", stats |-> Stats(now)]
    /\ log' = Append(log, LogEntry("info", "Statistiques spécifiques calculées"))
    /\ pc' = "done"
    /\ UNCHANGED <<db, players, i, countryStats, j, bestCountry, imcValues,
                   averageIMC, medianHeight>>
    /\ UNCHANGED requestVars

Next ==
    \/ CallGetSpecificStats
    \/ FindResolves
    \/ FindRejects
    \/ CheckEmpty
    \/ Aggregate
    \/ SelectStep
    \/ ComputeImc
    \/ CheckImc
    \/ ComputeMedian
    \/ ReturnStats

Spec == Init /\ [][Next]_vars

\* the same call, on the large record set or a short one of the win-rate family
InitLarge ==
    /\ db \in {LargeInput, TieInput, HalfwayInput} \cup {s \in WinInputs : Len(s) <= 3}
    /\ InitCall
    /\ DirectCall

SpecLarge == InitLarge /\ [][Next]_vars

----------------------------------------------------------------------------
(* GET /api/players/stats: the route handler around getSpecificStats *)

\* Stored players of the requests: a valid player of USA, and a player of ESP
\* who has no weight
HttpChoices ==
    { <<"USA", <<1, 1, 0, 1, 0>>, 80000, 180>>,
      <<"ESP", <<1, 0, 0, 0, 0>>, 0, 180>> }

HttpInputs ==
    UNION { { [k \in 1..n |-> MkPlayer(k, f[k][1], f[k][2], f[k][3], f[k][4])] :
                f \in [1..n -> HttpChoices] } : n \in 0..MaxHttpPlayers }

\* What the store may hold when the second request reads it, after players
\* were removed or created: no player, or the two players with valid weights
LaterStores ==
    { <<>>,
      <<MkPlayer(1, "USA", <<1, 1, 0, 1, 0>>, 80000, 180),
        MkPlayer(2, "ESP", <<1, 0, 0, 0, 0>>, 80000, 180)>> }

\* the entry the catch block of getSpecificStats logs (app.ts:406-411)
CatchEntry(message) ==
    [level |-> "error",
     message |-> "Erreur lors du calcul des statistiques spécifiques",
     error |-> message]

\* Object.entries(countryStats).forEach(...) over entries[lo..hi], in order
RECURSIVE ForEachEntry(_, _, _, _)
ForEachEntry(best, entries, lo, hi) ==
    IF lo > hi THEN best
    ELSE IF lo = hi THEN Consider(best, entries[lo])
    ELSE LET mid == (lo + hi) \div 2
             first == ForEachEntry(best, entries, lo, mid)
         IN  IF first = first THEN ForEachEntry(first, entries, mid + 1, hi) ELSE first

\* const stats = {...} (app.ts:383-395) of the values of one call
StatsOf(best, average, median, total, now) ==
    [bestWinRateCountry |->
        [country |-> best.code,
         winRate |-> best.ratio,
         wins |-> best.wins,
         totalMatches |-> best.total,
         players |-> best.players],
     averageIMC |-> Round2(average),
     medianHeight |-> median,
     totalPlayers |-> total,
     calculatedAt |-> now]

\* the end of getSpecificStats (app.ts:299-405) from the entries of the
\* aggregates and the IMC values
StatsWith(entries, imcs, ps, now) ==
    IF Len(imcs) = 0
    THEN [outcome |-> [kind |-> "threw", message |-> NoValidMessage],
          log |-> ImcWarnings(ps) \o <<CatchEntry(NoValidMessage)>>]
    ELSE [outcome |->
             [kind |-> "returned",
              stats |-> StatsOf(ForEachEntry(InitialBestCountry, entries, 1, Len(entries)),
                                Average(imcs), Median(SortedHeights(ps)), Len(ps), now)],
          log |-> ImcWarnings(ps)
                  \o <<LogEntry("info", "Statistiques spécifiques calculées")>>]

\* getSpecificStats from the resolution of the read to its end, which runs
\* without suspending (app.ts:271-411), from the aggregates cs: the outcome
\* and the log entries of the call
StatsFrom(cs, ps, now) ==
    IF Len(ps) = 0
    THEN [outcome |-> [kind |-> "threw", message |-> EmptyMessage],
          log |-> <<CatchEntry(EmptyMessage)>>]
    ELSE StatsWith(ObjectEntries(ForEachPlayer(cs, ps, 1, Len(ps))), ImcValues(ps), ps, now)

\* const countryStats = {} (app.ts:278): each call starts from its own map
GetSpecificStatsOf(ps, now) == StatsFrom(<<>>, ps, now)

\* a variant that answers 404 when the store holds no player
StatsResponseNotFound(o) ==
    IF o.kind = "returned"
    THEN [status |-> 200,
          body |-> [success |-> TRUE, data |-> o.stats,
                    message |-> "Statistiques calculées avec succès"]]
    ELSE [status |-> IF o.message = EmptyMessage THEN 404 ELSE 500,
          body |-> [success |-> FALSE,
                    error |-> "Erreur lors du calcul des statistiques"]]

\* a variant that answers 503 when the read of the players fails
StatsResponseUnavailable(o) ==
    IF o.kind = "returned"
    THEN [status |-> 200,
          body |-> [success |-> TRUE, data |-> o.stats,
                    message |-> "Statistiques calculées avec succès"]]
    ELSE [status |-> IF o.message \in DbErrors THEN 503 ELSE 500,
          body |-> [success |-> FALSE,
                    error |-> "Erreur lors du calcul des statistiques"]]

\* a variant that sends the message of the error
StatsResponseWithMessage(o) ==
    IF o.kind = "returned"
    THEN [status |-> 200,
          body |-> [success |-> TRUE, data |-> o.stats,
                    message |-> "Statistiques calculées avec succès"]]
    ELSE [status |-> 500, body |-> [success |-> FALSE, error |-> o.message]]

\* res.json({...}) with the default status, or res.status(500).json({...})
\* (part_016:143-156); body is the object handed to res.json
StatsResponse(o) ==
    IF o.kind = "returned"
    THEN [status |-> 200,
          body |-> [success |-> TRUE, data |-> o.stats,
                    message |-> "Statistiques calculées avec succès"]]
    ELSE [status |-> 500,
          body |-> [success |-> FALSE,
                    error |-> "Erreur lors du calcul des statistiques"]]

\* the entry the handler logs before it responds (part_016:136-151)
StatsRouteEntry(o) ==
    IF o.kind = "returned"
    THEN LogEntry("info", "Statistiques spécifiques calculées avec succès")
    ELSE [level |-> "error", message |-> "Erreur lors du calcul des statistiques",
          error |-> o.message]

NoResponse == [status |-> 0]

\* a request for the statistics that the router has handed to the handler
StatsRequest ==
    [pc |-> "received", method |-> "GET", path |-> "/api/players/stats",
     response |-> NoResponse]

InitHttp ==
    /\ db \in HttpInputs
    /\ InitCall
    /\ http = StatsRequest
    /\ other = [pc |-> "received", players |-> <<>>, outcome |-> Pending,
                response |-> NoResponse]
    /\ creates = <<>>
    /\ indexes = SchemaIndexes
    /\ isConnected = FALSE
    /\ handlers = <<>>
    /\ connectCall = [pc |-> "none"]
    /\ disconnects = <<>>
    /\ server = [pc |-> "none"]
    /\ trace = <<>>

engineVars ==
    <<db, pc, players, i, countryStats, j, bestCountry, imcValues, averageIMC,
      medianHeight, outcome>>

\* the handler starts: logger.info, then getSpecificStats is called and awaited
StatsRouteBegins ==
    /\ http.pc = "received"
    /\ http' = [http EXCEPT !.pc = "awaiting"]
    /\ log' = Append(log, LogEntry("info", "Calcul des statistiques spécifiques demandé"))
    /\ UNCHANGED engineVars
    /\ UNCHANGED <<other, creates, indexes,
                   isConnected, handlers, connectCall, disconnects, server, trace>>

\* the awaited call has ended: the handler logs and responds
StatsRouteResponds ==
    /\ http.pc = "awaiting"
    /\ pc \in {"done", "threw"}
    /\ http' = [http EXCEPT !.pc = "responded", !.response = StatsResponse(outcome)]
    /\ log' = Append(log, StatsRouteEntry(outcome))
    /\ UNCHANGED engineVars
    /\ UNCHANGED <<other, creates, indexes,
                   isConnected, handlers, connectCall, disconnects, server, trace>>

\* the handler of the second request starts and its call awaits the read
OtherBegins ==
    /\ other.pc = "received"
    /\ other' = [other EXCEPT !.pc = "awaiting"]
    /\ log' = log \o <<LogEntry("info", "Calcul des statistiques spécifiques demandé"),
                       LogEntry("debug", "Getting specific statistics")>>
    /\ UNCHANGED engineVars
    /\ UNCHANGED <<http, creates, indexes,
                   isConnected, handlers, connectCall, disconnects, server, trace>>

\* the call of the second request ends with the outcome and the log entries
\* of run, after it read the players ps
OtherEnds(ps, run) ==
    /\ other' = [other EXCEPT !.pc = "settled", !.players = ps, !.outcome = run.outcome]
    /\ log' = log \o run.log

\* a variant whose aggregates are kept in the map of the first call
OtherSettlesAccumulating ==
    /\ other.pc = "awaiting"
    /\ \E ps \in {db} \cup LaterStores, now \in Timestamps :
          OtherEnds(ps, StatsFrom(countryStats, ps, now))
    /\ UNCHANGED engineVars
    /\ UNCHANGED <<http, creates, indexes,
                   isConnected, handlers, connectCall, disconnects, server, trace>>

\* a variant that leaves its aggregates in the map of the first call
OtherSettlesSharing ==
    /\ other.pc = "awaiting"
    /\ \E ps \in {db} \cup LaterStores, now \in Timestamps :
          /\ OtherEnds(ps, GetSpecificStatsOf(ps, now))
          /\ countryStats' = ForEachPlayer(<<>>, ps, 1, Len(ps))
    /\ UNCHANGED <<db, pc, players, i, j, bestCountry, imcValues, averageIMC,
                   medianHeight, outcome>>
    /\ UNCHANGED <<http, creates, indexes,
                   isConnected, handlers, connectCall, disconnects, server, trace>>

\* the read of the second call resolves with the players stored at that time,
\* and the call runs to its end without suspending
OtherSettles ==
    /\ other.pc = "awaiting"
    /\ \E ps \in {db} \cup LaterStores, now \in Timestamps :
          OtherEnds(ps, GetSpecificStatsOf(ps, now))
    /\ UNCHANGED engineVars
    /\ UNCHANGED <<http, creates, indexes,
                   isConnected, handlers, connectCall, disconnects, server, trace>>

\* the read of the second call rejects
OtherFindRejects ==
    /\ other.pc = "awaiting"
    /\ \E e \in DbErrors :
          /\ other' = [other EXCEPT !.pc = "settled",
                                    !.outcome = [kind |-> "threw", message |-> e]]
          /\ log' = Append(log, CatchEntry(e))
    /\ UNCHANGED engineVars
    /\ UNCHANGED <<http, creates, indexes,
                   isConnected, handlers, connectCall, disconnects, server, trace>>

\* the handler of the second request logs and responds
OtherResponds ==
    /\ other.pc = "settled"
    /\ other' = [other EXCEPT !.pc = "responded",
                              !.response = StatsResponse(other.outcome)]
    /\ log' = Append(log, StatsRouteEntry(other.outcome))
    /\ UNCHANGED engineVars
    /\ UNCHANGED <<http, creates, indexes,
                   isConnected, handlers, connectCall, disconnects, server, trace>>

\* the two requests are served by one process: the steps of the first one,
\* which are those of getSpecificStats once its handler awaits it, and the
\* steps of the second one in any order
NextHttp ==
    \/ StatsRouteBegins
    \/ (http.pc = "awaiting" /\ CallGetSpecificStats)
    \/ FindResolves
    \/ FindRejects
    \/ CheckEmpty
    \/ Aggregate
    \/ SelectStep
    \/ ComputeImc
    \/ CheckImc
    \/ ComputeMedian
    \/ ReturnStats
    \/ StatsRouteResponds
    \/ OtherBegins
    \/ OtherSettles
    \/ OtherFindRejects
    \/ OtherResponds

SpecHttp == InitHttp /\ [][NextHttp]_vars

----------------------------------------------------------------------------
(* POST /api/players and the dispatch of a request to the routes *)

\* the decimal number 0.5
Half == FDiv(F(1), F(2))

\* A body of POST /api/players, of the fields the handlers read
Body(id, shortname, first) ==
    [id |-> id, firstname |-> "P", lastname |-> ToString(id), shortname |-> shortname,
     country |-> [code |-> "USA"],
     data |-> [rank |-> id, last |-> <<first, F(0), F(0), F(0), F(0)>>]]

\* Bodies of the requests: two ids and two short names, a short name in
\* lower case, and a result of 0.5
Bodies ==
    { Body(k, s, F(1)) : k \in {1, 2}, s \in {"R.FED", "R.NAD"} }
        \cup { Body(3, "r.fed", F(1)), Body(3, "N.DJO", Half) }

\* /^[A-Z]\.[A-Z]{2,4}$/ on the short names of the model
MatchesShortname(s) == s \in {"R.FED", "R.NAD", "N.DJO", "S.WIL"}

\* CreatePlayerSchema.parse (playerSchemas.ts:67-129), on the fields of the model
ZodAccepts(b) ==
    /\ b.id >= 1
    /\ MatchesShortname(b.shortname)
    /\ b.data.rank >= 1
    /\ Len(b.data.last) = 5
    /\ \A k \in 1..Len(b.data.last) :
          FLeq(F(0), b.data.last[k]) /\ FLeq(b.data.last[k], F(1))

\* the validation of the document by playerSchema (part_011:92-231)
MongooseAccepts(b) ==
    /\ b.id >= 1
    /\ MatchesShortname(b.shortname)
    /\ b.data.rank >= 1
    /\ Len(b.data.last) = 5
    /\ \A k \in 1..Len(b.data.last) : b.data.last[k] \in {F(0), F(1)}

\* The players stored before the requests, the first MaxStored of them at most
FullStore ==
    <<Body(1, "R.FED", F(1)), Body(2, "R.NAD", F(0)), Body(4, "S.WIL", F(1))>>

Stores == { SubSeq(FullStore, 1, n) : n \in 0..MaxStored }

\* db.players.createIndex of the database initialisation script (part_001:503-508)
ScriptIndexes == {"id", "shortname"}

\* Player.findOne({ id }) and Player.findOne({ shortname }) find a player
HasId(store, id) == \E k \in 1..Len(store) : store[k].id = id
HasShortname(store, s) == \E k \in 1..Len(store) : store[k].shortname = s

IdExistsMessage(id) == "Un joueur avec l'ID " \o ToString(id) \o " existe déjà"
ShortnameExistsMessage(s) == "Un joueur avec le nom court " \o s \o " existe déjà"

\* error.message.includes("existe déjà"), on the messages of the model
IncludesExisteDeja(message) ==
    \/ \E b \in Bodies : message = IdExistsMessage(b.id)
    \/ \E b \in Bodies : message = ShortnameExistsMessage(b.shortname)

ServiceError(message) ==
    [name |-> "Error", message |-> message, code |-> 0, field |-> ""]

\* the error of an insertion that a unique index on field refuses
DuplicateKeyError(field) ==
    [name |-> "MongoServerError", message |-> "E11000 duplicate key error",
     code |-> 11000, field |-> field]

ValidationError ==
    [name |-> "ValidationError", message |-> "Player validation failed",
     code |-> 0, field |-> "data.last"]

\* the first unique index a document violates, "" when it violates none
ViolatedIndex(store, doc) ==
    IF "id" \in indexes /\ HasId(store, doc.id) THEN "id"
    ELSE IF "shortname" \in indexes /\ HasShortname(store, doc.shortname) THEN "shortname"
    ELSE ""

\* playerSchema.methods.toPublicJSON (part_011:241-254)
ToPublicJSON(doc) ==
    [id |-> doc.id, firstname |-> doc.firstname, lastname |-> doc.lastname,
     shortname |-> doc.shortname, country |-> doc.country, data |-> doc.data]

\* res.status(201).json({...}) (part_016:358-362)
CreatedResponse(doc) ==
    [status |-> 201,
     body |-> [success |-> TRUE, data |-> ToPublicJSON(doc),
               message |-> "Joueur créé avec succès"]]

\* the catch block of the route (part_016:363-406)
CreateErrorResponse(error) ==
    IF IncludesExisteDeja(error.message)
    THEN [status |-> 409, body |-> [success |-> FALSE, error |-> error.message]]
    ELSE IF error.name = "ValidationError"
    THEN [status |-> 400,
          body |-> [success |-> FALSE, error |-> "Erreur de validation des données",
                    details |-> <<[field |-> error.field, message |-> error.message]>>]]
    ELSE IF error.code = 11000
    THEN [status |-> 409,
          body |-> [success |-> FALSE,
                    error |-> "La valeur du champ '" \o error.field \o "' est déjà utilisée"]]
    ELSE [status |-> 500,
          body |-> [success |-> FALSE, error |-> "Erreur lors de la création du joueur"]]

PlayerEntry(level, message, b) ==
    [level |-> level, message |-> message, playerId |-> b.id, playerName |-> FullName(b)]

\* what the catch blocks of createPlayer (app.ts:175-185) and of the route
\* (part_016:364-371) log
CreateErrorEntries(b) ==
    <<PlayerEntry("error", "Erreur lors de la création du joueur", b),
      PlayerEntry("error", "Erreur lors de la création du joueur", b)>>

\* createPlayer throws error: both catch blocks log it and the route responds
CreateFails(r, error, entries) ==
    /\ creates' = [creates EXCEPT ![r].pc = "responded",
                                  ![r].response = CreateErrorResponse(error)]
    /\ log' = log \o entries \o CreateErrorEntries(creates[r].body)
    /\ UNCHANGED db

CreateRequest(b) == [pc |-> "received", body |-> b, response |-> NoResponse]

\* Paths of the requests that are dispatched, as their segments
Paths == { <<"api", "players">>, <<"api", "unknown">> }

\* req.path of the segments
RECURSIVE PathString(_)
PathString(path) ==
    IF path = <<>> THEN "" ELSE "/" \o Head(path) \o PathString(Tail(path))

\* the dispatch with /:id declared before /stats
RouteIdFirst(method, path) ==
    IF Len(path) >= 2 /\ SubSeq(path, 1, 2) = <<"api", "players">>
    THEN LET rest == SubSeq(path, 3, Len(path))
         IN  IF method = "GET" /\ Len(rest) = 1 THEN "byId"
             ELSE IF method = "POST" /\ rest = <<>> THEN "create"
             ELSE "notFound"
    ELSE "notFound"

\* The handler a request is dispatched to: the routes of the players router
\* mounted on /api/players in the order of their declaration (part_016:130,
\* 339, 547), then the handler of the routes not found (app.ts:72)
Route(method, path) ==
    IF Len(path) >= 2 /\ SubSeq(path, 1, 2) = <<"api", "players">>
    THEN LET rest == SubSeq(path, 3, Len(path))
         IN  IF method = "GET" /\ rest = <<"stats">> THEN "stats"
             ELSE IF method = "POST" /\ rest = <<>> THEN "create"
             ELSE IF method = "GET" /\ Len(rest) = 1 THEN "byId"
             ELSE "notFound"
    ELSE "notFound"

InitApi ==
    /\ db \in Stores
    /\ InitCall
    /\ indexes \in {SchemaIndexes, ScriptIndexes}
    /\ isConnected = FALSE
    /\ handlers = <<>>
    /\ connectCall = [pc |-> "none"]
    /\ disconnects = <<>>
    /\ server = [pc |-> "none"]
    /\ trace = <<>>
    /\ creates \in { <<CreateRequest(a), CreateRequest(b)>> : a, b \in Bodies }
    /\ http \in { [pc |-> "received", method |-> "GET", path |-> p,
                   response |-> NoResponse] : p \in Paths }
    /\ other = NoRequest

callVars ==
    <<pc, players, i, countryStats, j, bestCountry, imcValues, averageIMC,
      medianHeight, outcome>>

\* validateBody(CreatePlayerSchema) (part_016:37-56), then the handler and
\* createPlayer up to the first lookup (part_016:343-350, app.ts:130-138)
PostReceived(r) ==
    /\ creates[r].pc = "received"
    /\ IF ZodAccepts(creates[r].body)
       THEN /\ creates' = [creates EXCEPT ![r].pc = "findId"]
            /\ log' = log \o
                  <<PlayerEntry("info", "Demande de création d'un nouveau joueur",
                                creates[r].body),
                    PlayerEntry("info", "Création d'un nouveau joueur", creates[r].body)>>
       ELSE /\ creates' = [creates EXCEPT
                  ![r].pc = "responded",
                  ![r].response =
                      [status |-> 400,
                       body |-> [success |-> FALSE, error |-> "Données invalides"]]]
            /\ log' = Append(log, LogEntry("warn", "Erreur de validation du body"))
    /\ UNCHANGED <<db, http, other, indexes,
                   isConnected, handlers, connectCall, disconnects, server, trace>>
    /\ UNCHANGED callVars

\* a variant that goes on to the lookup of the short name when the id is taken
FindOneByIdIgnored(r) ==
    /\ creates[r].pc = "findId"
    /\ creates' = [creates EXCEPT ![r].pc = "findShortname"]
    /\ UNCHANGED <<db, log, http, other, indexes,
                   isConnected, handlers, connectCall, disconnects, server, trace>>
    /\ UNCHANGED callVars

\* Player.findOne({ id }) resolves (app.ts:137-145)
FindOneById(r) ==
    /\ creates[r].pc = "findId"
    /\ IF HasId(db, creates[r].body.id)
       THEN CreateFails(r, ServiceError(IdExistsMessage(creates[r].body.id)),
                <<PlayerEntry("warn",
                      "Tentative de création d'un joueur avec un ID existant",
                      creates[r].body)>>)
       ELSE /\ creates' = [creates EXCEPT ![r].pc = "findShortname"]
            /\ UNCHANGED <<db, log>>
    /\ UNCHANGED <<http, other, indexes,
                   isConnected, handlers, connectCall, disconnects, server, trace>>
    /\ UNCHANGED callVars

\* Player.findOne({ shortname }) resolves (app.ts:147-163)
FindOneByShortname(r) ==
    /\ creates[r].pc = "findShortname"
    /\ IF HasShortname(db, creates[r].body.shortname)
       THEN CreateFails(r, ServiceError(ShortnameExistsMessage(creates[r].body.shortname)),
                <<PlayerEntry("warn",
                      "Tentative de création d'un joueur avec un shortname existant",
                      creates[r].body)>>)
       ELSE /\ creates' = [creates EXCEPT ![r].pc = "save"]
            /\ UNCHANGED <<db, log>>
    /\ UNCHANGED <<http, other, indexes,
                   isConnected, handlers, connectCall, disconnects, server, trace>>
    /\ UNCHANGED callVars

\* player.save() settles (app.ts:165-174), and the route responds
\* (part_016:352-362): the document is validated, then inserted unless a
\* unique index refuses it
Save(r) ==
    /\ creates[r].pc = "save"
    /\ IF ~MongooseAccepts(creates[r].body)
       THEN CreateFails(r, ValidationError, <<>>)
       ELSE IF ViolatedIndex(db, creates[r].body) # ""
       THEN CreateFails(r, DuplicateKeyError(ViolatedIndex(db, creates[r].body)), <<>>)
       ELSE /\ db' = Append(db, creates[r].body)
            /\ creates' = [creates EXCEPT ![r].pc = "responded",
                                          ![r].response = CreatedResponse(creates[r].body)]
            /\ log' = log \o
                  <<PlayerEntry("info", "Joueur créé avec succès", creates[r].body),
                    PlayerEntry("info", "Joueur créé avec succès", creates[r].body)>>
    /\ UNCHANGED <<http, other, indexes,
                   isConnected, handlers, connectCall, disconnects, server, trace>>
    /\ UNCHANGED callVars

\* a lookup or the save rejects with an error of the database
CreateRejects(r) ==
    /\ creates[r].pc \in {"findId", "findShortname", "save"}
    /\ \E e \in DbErrors : CreateFails(r, ServiceError(e), <<>>)
    /\ UNCHANGED <<http, other, indexes,
                   isConnected, handlers, connectCall, disconnects, server, trace>>
    /\ UNCHANGED callVars

\* the handler of the routes not found (app.ts:72-78)
RouteNotFound ==
    /\ http.pc = "received"
    /\ Route(http.method, http.path) = "notFound"
    /\ http' = [http EXCEPT !.pc = "responded",
                            !.response = [status |-> 404,
                                          body |-> [message |-> "Route non trouvée"]]]
    /\ log' = Append(log, LogEntry("warn", "Route non trouvée: " \o http.method
                                              \o " " \o PathString(http.path)))
    /\ UNCHANGED <<db, other, creates, indexes,
                   isConnected, handlers, connectCall, disconnects, server, trace>>
    /\ UNCHANGED callVars

NextApi ==
    \/ \E r \in DOMAIN creates : PostReceived(r)
    \/ \E r \in DOMAIN creates : FindOneById(r)
    \/ \E r \in DOMAIN creates : FindOneByShortname(r)
    \/ \E r \in DOMAIN creates : Save(r)
    \/ \E r \in DOMAIN creates : CreateRejects(r)
    \/ RouteNotFound

SpecApi == InitApi /\ [][NextApi]_vars

-----------------------------------------------------------------------------
(* GET requests on the players router: the dispatch among /stats and /:id,
   the validation of the id (validateParams(PlayerParamsSchema)), the handler
   of /:id and getPlayerById.  http is the request; after the validation it
   carries the parsed id, after getPlayerById has settled it carries the
   settlement of the read (read) and what getPlayerById returned (result). *)

\* The stores of the requests: documents of the collection with the fields of
\* the statistics and of toPublicJSON
RouteStores ==
    LET StoredPlayer(k, shortname, code, last, weight, height) ==
            [id |-> k, firstname |-> "P", lastname |-> ToString(k),
             shortname |-> shortname, country |-> [code |-> code],
             data |-> [rank |-> k, weight |-> weight, height |-> height,
                       last |-> last]]
    IN  { <<>>,
          <<StoredPlayer(1, "P.1", "USA", <<1, 1, 0, 1, 0>>, 80000, 180)>>,
          <<StoredPlayer(2, "P.2", "ESP", <<1, 0, 0, 0, 0>>, 70000, 175),
            StoredPlayer(1, "P.1", "USA", <<1, 1, 0, 1, 0>>, 80000, 180)>> }

\* The decimal digits of a segment matching /^\d+$/, <<>> for a segment that
\* does not match, on the segments of the model
DigitsOf(segment) ==
    CASE segment = "1" -> <<1>>
      [] segment = "2" -> <<2>>
      [] segment = "3" -> <<3>>
      [] segment = "02" -> <<0, 2>>
      [] segment = "0" -> <<0>>
      [] OTHER -> <<>>

\* parseInt(val, 10) of a string of decimal digits
RECURSIVE ParseInt(_)
ParseInt(digits) ==
    IF digits = <<>> THEN 0
    ELSE 10 * ParseInt(SubSeq(digits, 1, Len(digits) - 1)) + digits[Len(digits)]

\* PlayerParamsSchema.parse(req.params) succeeds: a non-empty string of digits
\* whose value is positive
ParamsAccepted(segment) ==
    /\ DigitsOf(segment) # <<>>
    /\ ParseInt(DigitsOf(segment)) > 0

\* The errors of a rejected read: of them, TimeoutMessage is the one that
\* error.message.includes("buffering timed out") holds of
TimeoutMessage == "Operation players.findOne() buffering timed out after 10000ms"
FindOneErrors == DbErrors \cup {TimeoutMessage}

\* Player.findOne({ id }) on the store: the first document with the id, or null
FindOne(store, id) ==
    IF HasId(store, id)
    THEN [kind |-> "player",
          player |-> store[CHOOSE k \in 1..Len(store) :
                               /\ store[k].id = id
                               /\ \A m \in 1..(k - 1) : store[m].id # id]]
    ELSE [kind |-> "null"]

\* what getPlayerById makes of a rejected read
OnFindOneErrorRethrowingAll(message) == [kind |-> "threw", message |-> message]

OnFindOneErrorSwallowingAll(message) == [kind |-> "null"]

OnFindOneError(message) ==
    IF message = TimeoutMessage
    THEN [kind |-> "null"]
    ELSE [kind |-> "threw", message |-> message]

\* the response of the handler of /:id to what getPlayerById returned or threw
ByIdResponse(result) ==
    IF result.kind = "player"
    THEN [status |-> 200,
          body |-> [success |-> TRUE, data |-> ToPublicJSON(result.player),
                    message |-> "Joueur récupéré avec succès"]]
    ELSE IF result.kind = "null"
    THEN [status |-> 404, body |-> [success |-> FALSE, error |-> "Joueur non trouvé"]]
    ELSE [status |-> 500,
          body |-> [success |-> FALSE,
                    error |-> "Erreur lors de la récupération du joueur"]]

\* the response of validateParams to a rejected parameter (the issues of zod
\* are left out of the body)
InvalidParamsResponse ==
    [status |-> 400,
     body |-> [success |-> FALSE, error |-> "Paramètres d'URL invalides"]]

\* a GET request of /api/players/<segment> has arrived
InitRoute ==
    /\ db \in RouteStores
    /\ InitCall
    /\ http \in {[pc |-> "received", method |-> "GET",
                  path |-> <<"api", "players", segment>>, response |-> NoResponse] :
                 segment \in {"stats", "1", "2", "3", "02", "abc", "-1", "0", "1.5"}}
    /\ other = NoRequest
    /\ creates = <<>>
    /\ indexes = SchemaIndexes
    /\ isConnected = FALSE
    /\ handlers = <<>>
    /\ connectCall = [pc |-> "none"]
    /\ disconnects = <<>>
    /\ server = [pc |-> "none"]
    /\ trace = <<>>

\* validateParams rejects the parameter: no handler runs
ParamsRejected ==
    /\ http.pc = "received"
    /\ Route(http.method, http.path) = "byId"
    /\ ~ParamsAccepted(http.path[3])
    /\ http' = [http EXCEPT !.pc = "responded", !.response = InvalidParamsResponse]
    /\ log' = Append(log, LogEntry("warn", "Erreur de validation des paramètres d'URL"))
    /\ UNCHANGED <<db, other, creates, indexes,
                   isConnected, handlers, connectCall, disconnects, server, trace>>
    /\ UNCHANGED callVars

\* validateParams accepts the parameter and replaces it with the parsed id;
\* the handler and getPlayerById run up to the read.  parseInt of the handler
\* is applied to the number and yields it again (the ids of the model are
\* below 1e21, where the number is written with its digits).
ByIdBegins ==
    /\ http.pc = "received"
    /\ Route(http.method, http.path) = "byId"
    /\ ParamsAccepted(http.path[3])
    /\ http' = [pc |-> "findOne", method |-> http.method, path |-> http.path,
                response |-> http.response,
                id |-> ParseInt(DigitsOf(http.path[3]))]
    /\ log' = log \o <<LogEntry("info", "Récupération des informations du joueur"),
                       LogEntry("debug", "Recherche joueur par ID")>>
    /\ UNCHANGED <<db, other, creates, indexes,
                   isConnected, handlers, connectCall, disconnects, server, trace>>
    /\ UNCHANGED callVars

\* getPlayerById after the read, which has resolved or rejected
GetPlayerByIdSettles ==
    \E read \in {[kind |-> "resolved"]}
                \cup {[kind |-> "rejected", message |-> m] : m \in FindOneErrors} :
        LET result == IF read.kind = "resolved" THEN FindOne(db, http.id)
                      ELSE OnFindOneError(read.message)
        IN  /\ http.pc = "findOne"
            /\ http' = [pc |-> "returned", method |-> http.method,
                        path |-> http.path, response |-> http.response,
                        id |-> http.id, read |-> read, result |-> result]
            /\ log' = log \o
                   (IF read.kind = "rejected"
                    THEN <<LogEntry("error", "Erreur lors de la recherche du joueur")>>
                         \o (IF result.kind = "null"
                             THEN <<LogEntry("warn",
                                             "Database connection timeout, returning null")>>
                             ELSE <<>>)
                    ELSE IF result.kind = "null"
                    THEN <<LogEntry("warn", "Joueur non trouvé")>>
                    ELSE <<LogEntry("info", "Joueur trouvé")>>)
            /\ UNCHANGED <<db, other, creates, indexes,
                           isConnected, handlers, connectCall, disconnects, server, trace>>
            /\ UNCHANGED callVars

\* the handler of /:id after getPlayerById
ByIdResponds ==
    /\ http.pc = "returned"
    /\ http' = [http EXCEPT !.pc = "responded", !.response = ByIdResponse(http.result)]
    /\ log' = Append(log,
                     IF http.result.kind = "player"
                     THEN LogEntry("info", "Joueur récupéré avec succès")
                     ELSE IF http.result.kind = "null"
                     THEN LogEntry("warn", "Joueur non trouvé")
                     ELSE LogEntry("error", "Erreur lors de la récupération du joueur"))
    /\ UNCHANGED <<db, other, creates, indexes,
                   isConnected, handlers, connectCall, disconnects, server, trace>>
    /\ UNCHANGED callVars

NextRoute ==
    \/ (Route(http.method, http.path) = "stats" /\ StatsRouteBegins)
    \/ (http.pc = "awaiting" /\ CallGetSpecificStats)
    \/ FindResolves
    \/ FindRejects
    \/ CheckEmpty
    \/ Aggregate
    \/ SelectStep
    \/ ComputeImc
    \/ CheckImc
    \/ ComputeMedian
    \/ ReturnStats
    \/ StatsRouteResponds
    \/ ParamsRejected
    \/ ByIdBegins
    \/ GetPlayerByIdSettles
    \/ ByIdResponds

SpecRoute == InitRoute /\ [][NextRoute]_vars

-----------------------------------------------------------------------------
(* The database connection (DatabaseConnection of part_013) and the process
   (startServer of server.ts).  trace holds, in order, the calls received
   (connect, disconnect, the events of the driver, the signal) and the calls
   made to the collaborators (the driver, the timers, the HTTP server, the
   process); each entry names who made it (by) and a number (n): the attempt
   of mongoose.connect, the delay of setTimeout, the exit code, and for
   disconnect 1 when mongoose.disconnect() was called and 0 when it was not.
   The entries written to the logger by these handlers are left out: nothing
   here depends on them.  A continuation of an await that has nothing to wait
   for runs in the step that settles the awaited promise. *)

\* the calls and events of the callers and the driver of SpecDb, and the events
\* of the driver of SpecServer
MaxStimuli == 3
MaxEvents == 1

MaxRetries == 5
FirstDelay == 2000
MaxDelay == 30000
RetryAfter == 10000

\* the calls and events the environment has made so far
Received ==
    Cardinality({k \in DOMAIN trace :
                    \/ trace[k].by = "driver"
                    \/ trace[k].by = "caller" /\ trace[k].op \in {"connect", "disconnect"}})

\* delay = Math.min(delay * 1.5, 30000); the delays this is applied to are even
NextDelay(delay) ==
    IF (3 * delay) \div 2 < MaxDelay THEN (3 * delay) \div 2 ELSE MaxDelay

\* What the caller of connect() does once the call has returned (ok) or thrown:
\* startServer schedules one retry after a failure and registers its handlers
\* of the signals in both cases; the retry and any other caller do nothing more
ResumeRetryingAgain(by, ok, h, s) ==
    IF by = "startServer"
    THEN [handlers |-> Append(h, "server"),
          server |-> [s EXCEPT !.pc = "running",
                               !.timer = IF ok THEN "none" ELSE "pending"],
          trace |-> IF ok THEN <<>>
                    ELSE <<[op |-> "setTimeout", by |-> by, n |-> RetryAfter]>>]
    ELSE IF by = "retry" /\ ~ok
    THEN [handlers |-> h, server |-> [s EXCEPT !.timer = "pending"],
          trace |-> <<[op |-> "setTimeout", by |-> by, n |-> RetryAfter]>>]
    ELSE [handlers |-> h, server |-> s, trace |-> <<>>]

Resume(by, ok, h, s) ==
    IF by = "startServer"
    THEN [handlers |-> Append(h, "server"),
          server |-> [s EXCEPT !.pc = "running",
                               !.timer = IF ok THEN "none" ELSE "pending"],
          trace |-> IF ok THEN <<>>
                    ELSE <<[op |-> "setTimeout", by |-> by, n |-> RetryAfter]>>]
    ELSE [handlers |-> h, server |-> s, trace |-> <<>>]

\* connect() is called, after the calls (before) its caller has made in the
\* same turn and with the server as the caller leaves it (s): it returns at
\* once when connected, otherwise it runs up to the first mongoose.connect.
\* One call at a time makes attempts.
ConnectCalled(by, before, s) ==
    /\ ~server.exited
    /\ connectCall.pc = "none" \/ isConnected
    /\ IF isConnected
       THEN LET r == Resume(by, TRUE, handlers, s)
            IN  /\ trace' = trace \o before
                                \o <<[op |-> "connect", by |-> by, n |-> 0],
                                     [op |-> "returned", by |-> by, n |-> 0]>>
                                \o r.trace
                /\ handlers' = r.handlers
                /\ server' = r.server
                /\ UNCHANGED connectCall
       ELSE /\ trace' = trace \o before
                            \o <<[op |-> "connect", by |-> by, n |-> 0],
                                 [op |-> "mongoose.connect", by |-> by, n |-> 1]>>
            /\ connectCall' = [pc |-> "attempt", by |-> by,
                               retries |-> MaxRetries, delay |-> FirstDelay]
            /\ server' = s
            /\ UNCHANGED handlers
    /\ UNCHANGED <<isConnected, disconnects>>
    /\ UNCHANGED <<engineVars, log, http, other, creates, indexes>>

\* mongoose.connect has resolved (ok) or rejected: the rest of the turn of the
\* loop, and after the loop the end of connect() and what its caller does next
AttemptSettlesKeepingOn ==
    \E ok \in BOOLEAN :
        /\ ~server.exited
        /\ connectCall.pc = "attempt"
        /\ IF ok
           THEN LET r == Resume(connectCall.by, TRUE,
                                Append(handlers, "database"), server)
                IN  /\ isConnected' = TRUE
                    /\ connectCall' = [pc |-> "none"]
                    /\ handlers' = r.handlers
                    /\ server' = r.server
                    /\ trace' = trace
                                \o <<[op |-> "returned", by |-> connectCall.by, n |-> 0]>>
                                \o r.trace
           ELSE /\ connectCall' = [connectCall EXCEPT !.pc = "wait", !.retries = @ - 1]
                /\ trace' = Append(trace, [op |-> "setTimeout", by |-> connectCall.by,
                                           n |-> connectCall.delay])
                /\ UNCHANGED <<isConnected, handlers, server>>
        /\ UNCHANGED disconnects
        /\ UNCHANGED <<engineVars, log, http, other, creates, indexes>>

AttemptSettles ==
    \E ok \in BOOLEAN :
        /\ ~server.exited
        /\ connectCall.pc = "attempt"
        /\ IF ok
           THEN LET r == Resume(connectCall.by, TRUE,
                                Append(handlers, "database"), server)
                IN  /\ isConnected' = TRUE
                    /\ connectCall' = [pc |-> "none"]
                    /\ handlers' = r.handlers
                    /\ server' = r.server
                    /\ trace' = trace
                                \o <<[op |-> "returned", by |-> connectCall.by, n |-> 0]>>
                                \o r.trace
           ELSE IF connectCall.retries - 1 > 0
           THEN /\ connectCall' = [connectCall EXCEPT !.pc = "wait", !.retries = @ - 1]
                /\ trace' = Append(trace, [op |-> "setTimeout", by |-> connectCall.by,
                                           n |-> connectCall.delay])
                /\ UNCHANGED <<isConnected, handlers, server>>
           ELSE LET r == Resume(connectCall.by, FALSE, handlers, server)
                IN  /\ connectCall' = [pc |-> "none"]
                    /\ handlers' = r.handlers
                    /\ server' = r.server
                    /\ trace' = trace
                                \o <<[op |-> "threw", by |-> connectCall.by, n |-> 0]>>
                                \o r.trace
                    /\ UNCHANGED isConnected
        /\ UNCHANGED disconnects
        /\ UNCHANGED <<engineVars, log, http, other, creates, indexes>>

\* the timer of the loop has fired: the delay grows and the next turn starts
WaitElapses ==
    /\ ~server.exited
    /\ connectCall.pc = "wait"
    /\ connectCall' = [connectCall EXCEPT !.pc = "attempt", !.delay = NextDelay(@)]
    /\ trace' = Append(trace, [op |-> "mongoose.connect", by |-> connectCall.by,
                               n |-> MaxRetries + 1 - connectCall.retries])
    /\ UNCHANGED <<isConnected, handlers, disconnects, server>>
    /\ UNCHANGED <<engineVars, log, http, other, creates, indexes>>

\* disconnect() is called by a caller of the module
DisconnectCalled ==
    /\ ~server.exited
    /\ Received < MaxStimuli
    /\ trace' = Append(trace, [op |-> "disconnect", by |-> "caller",
                               n |-> IF isConnected THEN 1 ELSE 0])
    /\ disconnects' = IF isConnected THEN Append(disconnects, "caller") ELSE disconnects
    /\ UNCHANGED <<isConnected, handlers, connectCall, server>>
    /\ UNCHANGED <<engineVars, log, http, other, creates, indexes>>

\* mongoose.disconnect() has resolved (ok) or rejected: the end of disconnect()
\* and what its caller does next.  The handler of the database exits with 0, or
\* its promise rejects unhandled and ends the process with 1; the shutdown of
\* the server exits with 0 in both cases.
DisconnectSettles ==
    \E k \in DOMAIN disconnects, ok \in BOOLEAN :
        LET by == disconnects[k]
            code == IF by = "database" /\ ~ok THEN 1 ELSE 0
        IN  /\ ~server.exited
            /\ disconnects' = SubSeq(disconnects, 1, k - 1)
                              \o SubSeq(disconnects, k + 1, Len(disconnects))
            /\ isConnected' = IF ok THEN FALSE ELSE isConnected
            /\ trace' = trace
                        \o <<[op |-> "disconnect done", by |-> by,
                              n |-> IF ok THEN 0 ELSE 1]>>
                        \o (IF by = "caller" THEN <<>>
                            ELSE <<[op |-> "process.exit", by |-> by, n |-> code]>>)
            /\ server' = IF by = "caller" THEN server
                         ELSE [server EXCEPT !.exited = TRUE, !.code = code]
            /\ UNCHANGED <<handlers, connectCall>>
            /\ UNCHANGED <<engineVars, log, http, other, creates, indexes>>

\* The driver emits an event: the listeners exist once setupEventListeners has
\* run, which also registers the handlers of the signals
DriverEventUnheard(e) ==
    /\ ~server.exited
    /\ trace' = Append(trace, [op |-> e, by |-> "driver", n |-> 0])
    /\ UNCHANGED <<isConnected, handlers, connectCall, disconnects, server>>
    /\ UNCHANGED <<engineVars, log, http, other, creates, indexes>>

DriverEvent(e) ==
    /\ ~server.exited
    /\ trace' = Append(trace, [op |-> e, by |-> "driver", n |-> 0])
    /\ isConnected' = IF \E k \in DOMAIN handlers : handlers[k] = "database"
                      THEN e \in {"connected", "reconnected"}
                      ELSE isConnected
    /\ UNCHANGED <<handlers, connectCall, disconnects, server>>
    /\ UNCHANGED <<engineVars, log, http, other, creates, indexes>>

\* The module alone, with callers of connect() and disconnect()
InitDb ==
    /\ db = <<>>
    /\ InitCall
    /\ http = NoRequest
    /\ other = NoRequest
    /\ creates = <<>>
    /\ indexes = SchemaIndexes
    /\ isConnected = FALSE
    /\ handlers = <<>>
    /\ connectCall = [pc |-> "none"]
    /\ disconnects = <<>>
    /\ server = [pc |-> "none", listening |-> FALSE, closing |-> FALSE,
                 closed |-> FALSE, timer |-> "none", exited |-> FALSE, code |-> 0]
    /\ trace = <<>>

NextDb ==
    \/ (Received < MaxStimuli /\ ConnectCalled("caller", <<>>, server))
    \/ AttemptSettles
    \/ WaitElapses
    \/ DisconnectCalled
    \/ DisconnectSettles
    \/ \E e \in {"connected", "disconnected", "reconnected", "close"} :
           Received < MaxStimuli /\ DriverEvent(e)

SpecDb == InitDb /\ [][NextDb]_vars

\* startServer up to its first await: server.listen, then database.connect()
StartServer ==
    /\ server.pc = "start"
    /\ ConnectCalled("startServer",
                     <<[op |-> "server.listen", by |-> "startServer", n |-> 0]>>,
                     [server EXCEPT !.pc = "connecting"])

\* the HTTP server is listening
ServerListens ==
    /\ ~server.exited
    /\ server.pc \in {"connecting", "running"}
    /\ ~server.listening
    /\ ~server.closing
    /\ server' = [server EXCEPT !.listening = TRUE]
    /\ trace' = Append(trace, [op |-> "listening", by |-> "server", n |-> 0])
    /\ UNCHANGED <<isConnected, handlers, connectCall, disconnects>>
    /\ UNCHANGED <<engineVars, log, http, other, creates, indexes>>

\* the timer of the retry has fired: database.connect() is called once more
RetryFires ==
    /\ server.timer = "pending"
    /\ ConnectCalled("retry", <<>>, [server EXCEPT !.timer = "fired"])

\* SIGTERM or SIGINT is delivered, once: the handlers run in the order of their
\* registration, each up to its first await (the handler of the database up to
\* mongoose.disconnect(), or to the end of disconnect() when not connected; the
\* handler of the server up to server.close), then the continuations that have
\* nothing to wait for.  With no handler the signal ends the process.
Signal(sig) ==
    LET database == {k \in DOMAIN handlers : handlers[k] = "database"}
        exits == handlers = <<>> \/ (database # {} /\ ~isConnected)
    IN  /\ ~server.exited
        /\ server.pc # "start"
        /\ \A k \in DOMAIN trace : trace[k].by # "os"
        /\ trace' = trace
               \o <<[op |-> sig, by |-> "os", n |-> 0]>>
               \o [k \in DOMAIN handlers |->
                      IF handlers[k] = "database"
                      THEN [op |-> "disconnect", by |-> "database",
                            n |-> IF isConnected THEN 1 ELSE 0]
                      ELSE [op |-> "server.close", by |-> "server", n |-> 0]]
               \o (IF database # {} /\ ~isConnected
                   THEN <<[op |-> "process.exit", by |-> "database", n |-> 0]>>
                   ELSE <<>>)
        /\ disconnects' = disconnects
               \o (IF isConnected
                   THEN [k \in 1..Cardinality(database) |-> "database"]
                   ELSE <<>>)
        /\ server' = [server EXCEPT
                        !.closing = \E k \in DOMAIN handlers : handlers[k] = "server",
                        !.exited = exits,
                        !.code = IF handlers # <<>> THEN 0
                                 ELSE IF sig = "SIGTERM" THEN 143 ELSE 130]
        /\ UNCHANGED <<isConnected, handlers, connectCall>>
        /\ UNCHANGED <<engineVars, log, http, other, creates, indexes>>

\* the HTTP server has closed: the callback of server.close runs up to the
\* await of database.disconnect(), and to process.exit(0) when not connected
ServerCloses ==
    /\ ~server.exited
    /\ server.closing
    /\ ~server.closed
    /\ trace' = trace
           \o <<[op |-> "closed", by |-> "server", n |-> 0],
                [op |-> "disconnect", by |-> "shutdown",
                 n |-> IF isConnected THEN 1 ELSE 0]>>
           \o (IF isConnected THEN <<>>
               ELSE <<[op |-> "process.exit", by |-> "shutdown", n |-> 0]>>)
    /\ disconnects' = IF isConnected THEN Append(disconnects, "shutdown")
                      ELSE disconnects
    /\ server' = [server EXCEPT !.closed = TRUE, !.listening = FALSE,
                                !.exited = ~isConnected]
    /\ UNCHANGED <<isConnected, handlers, connectCall>>
    /\ UNCHANGED <<engineVars, log, http, other, creates, indexes>>

\* The process of server.ts.  Of the events of the driver, those are followed
\* that a listener hears: the others change nothing in the process.
InitServer ==
    /\ db = <<>>
    /\ InitCall
    /\ http = NoRequest
    /\ other = NoRequest
    /\ creates = <<>>
    /\ indexes = SchemaIndexes
    /\ isConnected = FALSE
    /\ handlers = <<>>
    /\ connectCall = [pc |-> "none"]
    /\ disconnects = <<>>
    /\ server = [pc |-> "start", listening |-> FALSE, closing |-> FALSE,
                 closed |-> FALSE, timer |-> "none", exited |-> FALSE, code |-> 0]
    /\ trace = <<>>

NextServer ==
    \/ StartServer
    \/ ServerListens
    \/ AttemptSettles
    \/ WaitElapses
    \/ RetryFires
    \/ \E e \in {"connected", "disconnected", "reconnected", "close"} :
           /\ \E k \in DOMAIN handlers : handlers[k] = "database"
           /\ Received < MaxEvents
           /\ DriverEvent(e)
    \/ \E sig \in {"SIGTERM", "SIGINT"} : Signal(sig)
    \/ ServerCloses
    \/ DisconnectSettles

SpecServer == InitServer /\ [][NextServer]_vars

\* mongoose.connect settles (it gives up after serverSelectionTimeoutMS) and
\* the timers fire
SpecServerFair ==
    /\ SpecServer
    /\ WF_vars(AttemptSettles)
    /\ WF_vars(WaitElapses)

----------------------------------------------------------------------------
(* What the claims are stated with: the record set seen by the call *)

\* the read of all players has resolved
Found == pc \notin {"idle", "find"} /\ ~(pc = "threw" /\ outcome.message \in DbErrors)

Returned == outcome.kind = "returned"
Threw(message) == outcome.kind = "threw" /\ outcome.message = message

\* record k has both weight > 0 and height > 0
ValidAnthro(k) == players[k].data.weight > 0 /\ players[k].data.height > 0
ValidIndices == {k \in 1..Len(players) : ValidAnthro(k)}

Warnings == SelectSeq(log, LAMBDA e : e.level = "warn")

----------------------------------------------------------------------------
\* C1: when the record source returns no player, the call fails with the
\* empty-data-set error and returns nothing; the check is made at entry: no
\* country aggregate, best country, IMC value, average, median or exclusion
\* warning has been produced by then.
C1_EmptyFailsAtEntry ==
    (Found /\ players = <<>>) =>
        /\ pc \in {"check", "threw"}
        /\ (pc = "threw" => Threw(EmptyMessage))
        /\ ~Returned
        /\ countryStats = <<>>
        /\ bestCountry = InitialBestCountry
        /\ imcValues = <<>>
        /\ averageIMC = Undefined
        /\ medianHeight = Undefined
        /\ Warnings = <<>>

C1_Witness == Found /\ players = <<>> /\ Threw(EmptyMessage)

\* C2: on a non-empty record set in which no record has both weight > 0 and
\* height > 0, the call never returns a result, and when it has ended it has
\* thrown the no-valid-anthropometric-data error.
C2_NoValidDataFails ==
    (Found /\ Len(players) > 0 /\ ValidIndices = {}) =>
        /\ ~Returned
        /\ pc \notin {"median", "assemble", "done"}
        /\ (pc = "threw" => Threw(NoValidMessage))

C2_Witness ==
    /\ Len(players) >= 2
    /\ ValidIndices = {}
    /\ Threw(NoValidMessage)
    /\ \E k \in 1..Len(players) : players[k].data.height < 0
    /\ \E k \in 1..Len(players) : players[k].data.weight = 0

\* a number, and not null or undefined
IsNumber(x) == DOMAIN x = {"s", "e", "m"} /\ x.s \in {-1, 0, 1} /\ x.e \in Int

\* C3: the call either throws or returns a result with all five fields, whose
\* averageIMC is a number and comes from at least one record with weight > 0
\* and height > 0; nothing is returned together with an error.
C3_NoPartialResult ==
    /\ outcome.kind \in {"pending", "threw", "returned"}
    /\ (pc = "done") = Returned
    /\ (pc = "threw") = (outcome.kind = "threw")
    /\ Returned =>
        /\ DOMAIN outcome.stats = {"bestWinRateCountry", "averageIMC", "medianHeight",
                                   "totalPlayers", "calculatedAt"}
        /\ DOMAIN outcome.stats.bestWinRateCountry =
               {"country", "winRate", "wins", "totalMatches", "players"}
        /\ IsNumber(outcome.stats.bestWinRateCountry.winRate)
        /\ IsNumber(outcome.stats.averageIMC)
        /\ IsNumber(outcome.stats.medianHeight)
        /\ outcome.stats.calculatedAt \in Timestamps
        /\ outcome.stats.totalPlayers \in Nat
        /\ ValidIndices # {}
        /\ Len(imcValues) >= 1

C3_Witness ==
    /\ Returned
    /\ Len(players) >= 2
    /\ Cardinality(ValidIndices) = 1

----------------------------------------------------------------------------
(* The win-rate statistics, stated from the record set *)

Countries == {players[k].country.code : k \in 1..Len(players)}

IndicesOf(c) == {k \in 1..Len(players) : players[k].country.code = c}

\* the matches of the players of country c, and those they won
MatchesOf(c) ==
    {<<k, m>> \in (1..Len(players)) \X (1..5) :
        players[k].country.code = c /\ m <= Len(players[k].data.last)}

WinsOf(c) == Cardinality({km \in MatchesOf(c) : players[km[1]].data.last[km[2]] = 1})
TotalOf(c) == Cardinality(MatchesOf(c))

\* the exact ratio wins/totalMatches of country a is greater than that of b
RatioGreater(a, b) == WinsOf(a) * TotalOf(b) > WinsOf(b) * TotalOf(a)

\* index of the first record of country c
FirstIndex(c) == CHOOSE k \in IndicesOf(c) : \A m \in IndicesOf(c) : k <= m

\* the names of the players of country c, in input order
NamesOf(c) ==
    LET ps == SelectSeq(players, LAMBDA p : p.country.code = c)
    IN  [k \in 1..Len(ps) |-> ps[k].firstname \o " " \o ps[k].lastname]

Selected == outcome.stats.bestWinRateCountry.country

\* C4: on success no country of the input has a strictly greater exact ratio
\* wins/totalMatches than the country reported in bestWinRateCountry.
C4_BestHasHighestRatio ==
    Returned =>
        /\ Selected \in Countries
        /\ \A c \in Countries : ~RatioGreater(c, Selected)

\* C5: on success, among the countries whose exact win rate is the highest,
\* the one reported is the one that appears first in the input sequence.
C5_FirstSeenWinsTies ==
    Returned =>
        /\ Selected \in Countries
        /\ \A c \in Countries :
              (\A o \in Countries : ~RatioGreater(o, c))
                  => FirstIndex(Selected) <= FirstIndex(c)

\* the pass over the records is over
AggregationDone ==
    \/ pc \in {"select", "imc", "median", "assemble", "done"}
    \/ pc = "threw" /\ Threw(NoValidMessage)

\* C6: after the pass there is exactly one aggregate per country of the input,
\* with wins the sum of the last entries of its players, total the sum of the
\* lengths of their last arrays and players their names in input order; the
\* aggregates share no player and together hold every record.
C6_AggregatesAfterPass ==
    AggregationDone =>
        /\ {countryStats[k].code : k \in 1..Len(countryStats)} = Countries
        /\ Len(countryStats) = Cardinality(Countries)
        /\ \A k \in 1..Len(countryStats) :
              /\ countryStats[k].wins = WinsOf(countryStats[k].code)
              /\ countryStats[k].total = TotalOf(countryStats[k].code)
              /\ countryStats[k].total = 5 * Cardinality(IndicesOf(countryStats[k].code))
              /\ countryStats[k].players = NamesOf(countryStats[k].code)
        /\ \A k \in 1..Len(players) :
              Cardinality({e \in 1..Len(countryStats) :
                  \E m \in 1..Len(countryStats[e].players) :
                      countryStats[e].players[m] = FullName(players[k])}) = 1

C6_Witness ==
    /\ pc = "select"
    /\ Len(countryStats) = 2
    /\ \E k \in 1..2 : Len(countryStats[k].players) >= 2 /\ countryStats[k].wins >= 2

\* the number written with 2 decimals whose hundredths are h (h / 100)
Decimal2(h) == FDiv(F(h), F(100))

\* C7: the reported winRate is the selected country's wins/totalMatches*100
\* rounded to 2 decimals, halves away from zero, and lies between 0 and 100.
C7_WinRateRounded ==
    Returned =>
        LET b == outcome.stats.bestWinRateCountry
            w == WinsOf(b.country)
            t == TotalOf(b.country)
            h == (2 * w * 10000 + t) \div (2 * t)   \* the rounded rate, in hundredths
        IN  /\ b.country \in Countries
            /\ 2 * h * t <= 2 * w * 10000 + t
            /\ 2 * w * 10000 + t < 2 * (h + 1) * t
            /\ b.winRate = Decimal2(h)
            /\ h >= 0 /\ h <= 10000

----------------------------------------------------------------------------
(* The IMC and height statistics, stated from the record set *)

\* exact fractions n/d (d > 0), in lowest terms
RECURSIVE GCD(_, _)
GCD(a, b) == IF b = 0 THEN a ELSE GCD(b, a % b)

Rat(n, d) == [n |-> n \div GCD(n, d), d |-> d \div GCD(n, d)]

RatPlus(a, b) == Rat(a.n * b.d + b.n * a.d, a.d * b.d)

\* weight(kg) / height(m)^2 of the valid record k, as 10 * grams / cm^2
Bmi(k) == Rat(10 * players[k].data.weight,
              players[k].data.height * players[k].data.height)

\* the IMC values have been computed
ImcDone ==
    \/ pc \in {"imc", "median", "assemble", "done"}
    \/ pc = "threw" /\ Threw(NoValidMessage)

\* the valid records, in input order
ValidSeq == SelectSeq([k \in 1..Len(players) |-> k], LAMBDA k : ValidAnthro(k))

\* C8: the IMC values are those of exactly the records with weight > 0 and
\* height > 0, one per such record; an invalid record does not abort the
\* call: with at least one valid record the call does not throw.
C8_ExclusionFromImcOnly ==
    /\ ImcDone =>
          /\ Len(imcValues) = Cardinality(ValidIndices)
          /\ \A m \in 1..Len(imcValues) :
                /\ IsNumber(imcValues[m]) /\ imcValues[m].s = 1
                /\ imcValues[m] = ImcOf(players[ValidSeq[m]])
    /\ (Found /\ ValidIndices # {}) => pc # "threw"

C8_Witness ==
    /\ Returned
    /\ Len(players) = 3
    /\ Len(imcValues) = 2
    /\ \E k \in 1..3 : players[k].data.weight <= 0

\* the sum of the IMC of the records of S
RECURSIVE BmiSum(_)
BmiSum(S) ==
    IF S = {} THEN Rat(0, 1)
    ELSE LET k == CHOOSE x \in S : \A y \in S : x >= y
         IN  RatPlus(Bmi(k), BmiSum(S \ {k}))

\* C9: on success averageIMC is the mean of weight(kg)/height(m)^2 over
\* exactly the records with weight > 0 and height > 0, rounded to 2 decimals:
\* in hundredths it is the integer nearest to 100 times the mean.
C9_AverageImc ==
    Returned =>
        LET sum == BmiSum(ValidIndices)
            mn == sum.n                    \* the mean is mn / md
            md == sum.d * Cardinality(ValidIndices)
            h == (200 * mn + md) \div (2 * md)   \* the rounded mean, in hundredths
        IN  /\ ValidIndices # {}
            /\ 2 * h * md <= 200 * mn + md
            /\ 200 * mn + md < 2 * (h + 1) * md
            /\ outcome.stats.averageIMC = Decimal2(h)

HeightsBelow(v) == Cardinality({k \in 1..Len(players) : players[k].data.height < v})
HeightsUpTo(v) == Cardinality({k \in 1..Len(players) : players[k].data.height <= v})

\* the element at index r (from 0) of the heights of all records sorted
\* ascending numerically
HeightAt(r) ==
    CHOOSE v \in {players[k].data.height : k \in 1..Len(players)} :
        HeightsBelow(v) <= r /\ r < HeightsUpTo(v)

\* C10: on success medianHeight is the median of the heights of all records
\* sorted ascending: the element at index floor(n/2) for an odd count n, the
\* mean of the elements at indices n/2 - 1 and n/2 for an even count.
C10_MedianHeight ==
    Returned =>
        LET n == Len(players)
            m == outcome.stats.medianHeight
        IN  IF n % 2 = 1
            THEN m = F(HeightAt(n \div 2))
            ELSE FAdd(m, m) = F(HeightAt(n \div 2 - 1) + HeightAt(n \div 2))

\* an even count with a fractional median, from records not given in order
C10_Witness ==
    /\ Returned
    /\ Len(players) = 2
    /\ players[1].data.height > players[2].data.height
    /\ (players[1].data.height + players[2].data.height) % 2 = 1

----------------------------------------------------------------------------
(* The records excluded from the IMC, in the other statistics *)

ExcludedIndices == (1..Len(players)) \ ValidIndices

\* m is the median of the heights of all records
IsMedianOfAll(m) ==
    IF Len(players) % 2 = 1
    THEN m = F(HeightAt(Len(players) \div 2))
    ELSE FAdd(m, m) = F(HeightAt(Len(players) \div 2 - 1) + HeightAt(Len(players) \div 2))

\* C11: on success totalPlayers is the number of input records, the median is
\* that of the heights of all records, and every record excluded from the IMC
\* is named in the aggregate of its country, whose wins and total count the
\* matches of all the players of the country, excluded ones included; the
\* reported country's wins and matches count them too.
C11_ExclusionLeavesOtherStatistics ==
    Returned =>
        /\ outcome.stats.totalPlayers = Len(players)
        /\ IsMedianOfAll(outcome.stats.medianHeight)
        /\ outcome.stats.bestWinRateCountry.wins = WinsOf(Selected)
        /\ outcome.stats.bestWinRateCountry.totalMatches = TotalOf(Selected)
        /\ \A k \in ExcludedIndices :
              \E e \in 1..Len(countryStats) :
                  /\ countryStats[e].code = players[k].country.code
                  /\ \E m \in 1..Len(countryStats[e].players) :
                        countryStats[e].players[m] = FullName(players[k])
                  /\ countryStats[e].wins = WinsOf(players[k].country.code)
                  /\ countryStats[e].total = TotalOf(players[k].country.code)

\* three records of one country, the excluded one with wins and with the
\* median height, which no other record has
C11_Witness ==
    /\ Returned
    /\ Len(players) = 3
    /\ outcome.stats.bestWinRateCountry.wins = 9
    /\ \E k \in ExcludedIndices :
          /\ outcome.stats.medianHeight = F(players[k].data.height)
          /\ \A m \in ValidIndices : players[m].data.height # players[k].data.height

----------------------------------------------------------------------------
\* the positions in the log of the entries of a level
PositionsOf(level) == {n \in 1..Len(log) : log[n].level = level}

\* C14: when the call is about to fail, or has failed, with the
\* no-valid-anthropometric-data error, the log holds one warning for every
\* input record, in the order of the records and naming the record by id and
\* full name, and every warning precedes the error entry of the failure.
C14_WarningsPrecedeNoValidError ==
    ((pc = "imc" /\ Len(imcValues) = 0) \/ Threw(NoValidMessage)) =>
        /\ Len(Warnings) = Len(players)
        /\ \A k \in 1..Len(players) :
              /\ Warnings[k].playerId = players[k].id
              /\ Warnings[k].playerName = FullName(players[k])
        /\ \A w \in PositionsOf("warn") : \A r \in PositionsOf("error") : w < r

\* the failure of three records, one excluded for its height alone
C14_Witness ==
    /\ Threw(NoValidMessage)
    /\ Len(players) = 3
    /\ PositionsOf("error") # {}
    /\ \E k \in 1..3 : players[k].data.weight > 0 /\ players[k].data.height = 0
    /\ \E k \in 1..3 : players[k].data.weight < 0

----------------------------------------------------------------------------
(* Two calls of getSpecificStats *)

\* the call of the first request has ended
Ended == pc \in {"done", "threw"}

\* the call of the second request has ended
OtherEnded == other.pc \in {"settled", "responded"}

\* the read of the second call has resolved
OtherFound ==
    /\ OtherEnded
    /\ ~(other.outcome.kind = "threw" /\ other.outcome.message \in DbErrors)

\* two outcomes are the same error, or results equal in all but calculatedAt
SameOutcome(a, b) ==
    /\ a.kind = b.kind
    /\ a.kind = "threw" => a.message = b.message
    /\ a.kind = "returned" =>
          /\ a.stats.bestWinRateCountry = b.stats.bestWinRateCountry
          /\ a.stats.averageIMC = b.stats.averageIMC
          /\ a.stats.medianHeight = b.stats.medianHeight
          /\ a.stats.totalPlayers = b.stats.totalPlayers

\* C12: two calls that have read the same records end with the same error,
\* or with results whose bestWinRateCountry, averageIMC, medianHeight and
\* totalPlayers are identical; only calculatedAt may differ.
C12_SameRecordsSameResult ==
    (Ended /\ Found /\ OtherFound /\ other.players = players) =>
        SameOutcome(outcome, other.outcome)

\* both calls returned from the same two records, at different times
C12_Witness ==
    /\ Returned
    /\ other.outcome.kind = "returned"
    /\ other.players = players
    /\ Len(players) = 2
    /\ other.outcome.stats.calculatedAt # outcome.stats.calculatedAt

\* the outcome a call has when it runs alone on the records ps
Alone(ps, o) ==
    GetSpecificStatsOf(ps, IF o.kind = "returned" THEN o.stats.calculatedAt ELSE "").outcome

\* C13: under every interleaving of the steps of two calls, a call whose read
\* resolved ends with the outcome it has when it runs alone on the records it
\* read, and a call whose read rejected ends with the error of the read (the
\* outcome of each call is looked at when the call ends, before its handler
\* responds).
C13_CallsIndependent ==
    /\ (Ended /\ http.pc = "awaiting") =>
          IF Found THEN outcome = Alone(players, outcome)
          ELSE outcome.kind = "threw" /\ outcome.message \in DbErrors
    /\ other.pc = "settled" =>
          IF OtherFound THEN other.outcome = Alone(other.players, other.outcome)
          ELSE other.outcome.kind = "threw" /\ other.outcome.message \in DbErrors

\* the second call read an empty store and failed while the first call was
\* between its IMC values and its result, which it returned
C13_Witness ==
    /\ Returned
    /\ OtherEnded
    /\ other.outcome = [kind |-> "threw", message |-> EmptyMessage]
    /\ \E a, b, c \in 1..Len(log) :
          /\ a < b /\ b < c
          /\ log[a].level = "warn"
          /\ log[b] = CatchEntry(EmptyMessage)
          /\ log[c] = LogEntry("info", "Statistiques spécifiques calculées")

----------------------------------------------------------------------------
(* The responses of GET /api/players/stats *)

Responded == http.pc = "responded"

SuccessBody(stats) ==
    [success |-> TRUE, data |-> stats, message |-> "Statistiques calculées avec succès"]

FailureBody == [success |-> FALSE, error |-> "Erreur lors du calcul des statistiques"]

\* C15: the response of GET /api/players/stats has status 200 exactly when
\* getSpecificStats returned a result, and its body is then the envelope
\* {success: true, data: <the result>, message}; when the call failed on an
\* empty data set or for want of valid IMC data the response has status 500
\* and the body {success: false, error: "Erreur lors du calcul des
\* statistiques"}; no response has another status.
C15_StatusFollowsOutcome ==
    Responded =>
        /\ http.response.status \in {200, 500}
        /\ http.response.status = 200 <=> Returned
        /\ Returned => http.response.body = SuccessBody(outcome.stats)
        /\ (Threw(EmptyMessage) \/ Threw(NoValidMessage)) =>
              http.response = [status |-> 500, body |-> FailureBody]

\* the response to a request served from an empty store
C15_Witness ==
    /\ Responded
    /\ Threw(EmptyMessage)
    /\ http.response.status = 500

\* C16 as stated: when the read of the players rejects, the response has
\* status 503 or 404, and not the 500 of the computation failures.
C16_ReadFailureIs503Or404 ==
    (Responded /\ outcome.kind = "threw" /\ outcome.message \in DbErrors) =>
        http.response.status \in {503, 404}

\* C16, amended: when the read of the players rejects, the response is the
\* one of the computation failures: status 500 and the body {success: false,
\* error: "Erreur lors du calcul des statistiques"}.
C16_ReadFailureIs500 ==
    (Responded /\ outcome.kind = "threw" /\ outcome.message \in DbErrors) =>
        http.response = [status |-> 500, body |-> FailureBody]

\* the response to a request whose read failed
C16_Witness ==
    /\ Responded
    /\ ~Found
    /\ Threw("Database connection failed")
    /\ players = <<>>

\* the records of ps excluded from the IMC
ExcludedOf(ps) == {k \in 1..Len(ps) : ps[k].data.weight <= 0 \/ ps[k].data.height <= 0}

\* C17: of two requests that were responded to, when both calls failed the
\* two responses are identical in status and body, whichever error each call
\* raised and whichever records it excluded; when both calls returned the
\* same statistics the two responses are identical, whichever records each
\* call excluded from the IMC.
C17_ResponseHidesDiagnostics ==
    (Responded /\ other.pc = "responded") =>
        /\ (outcome.kind = "threw" /\ other.outcome.kind = "threw") =>
              http.response = other.response
        /\ (Returned /\ other.outcome.kind = "returned"
                /\ outcome.stats = other.outcome.stats) =>
              http.response = other.response

\* two failures: the first call excluded both records, the second read no record
C17_Witness ==
    /\ Responded
    /\ other.pc = "responded"
    /\ Threw(NoValidMessage)
    /\ Cardinality(ExcludedOf(players)) = 2
    /\ other.outcome = [kind |-> "threw", message |-> EmptyMessage]
    /\ http.response = other.response

----------------------------------------------------------------------------
(* The creation of players *)

\* the response of a rejection for the reason message
Conflict(message) ==
    [status |-> 409, body |-> [success |-> FALSE, error |-> message]]

\* the request was answered that the database failed
FailedOnDatabase(c) == c.pc = "responded" /\ c.response.status = 500

\* C18: a creation request whose id a stored player has is rejected at the
\* lookup of the id with the "existe déjà" error of the id and the response
\* 409, the store unchanged; the lookup of the short name is made only when
\* the id was found free, and a request whose short name a stored player has
\* is then rejected with the "existe déjà" error of the short name and 409,
\* the store unchanged; the store changes only by the save of a request that
\* is answered 201, which appends its player (lookups that the database
\* fails are left aside).
C18_DuplicateRejected ==
    [][ /\ \A r \in DOMAIN creates :
              /\ (creates[r].pc = "findId" /\ creates'[r].pc # "findId"
                      /\ ~FailedOnDatabase(creates'[r])) =>
                    /\ db' = db
                    /\ IF HasId(db, creates[r].body.id)
                       THEN /\ creates'[r].pc = "responded"
                            /\ creates'[r].response =
                                   Conflict(IdExistsMessage(creates[r].body.id))
                       ELSE creates'[r].pc = "findShortname"
              /\ (creates[r].pc = "findShortname" /\ creates'[r].pc # "findShortname"
                      /\ ~FailedOnDatabase(creates'[r])) =>
                    /\ db' = db
                    /\ IF HasShortname(db, creates[r].body.shortname)
                       THEN /\ creates'[r].pc = "responded"
                            /\ creates'[r].response =
                                   Conflict(ShortnameExistsMessage(creates[r].body.shortname))
                       ELSE creates'[r].pc = "save"
              /\ (creates'[r].pc = "findShortname" /\ creates[r].pc # "findShortname") =>
                    creates[r].pc = "findId" /\ ~HasId(db, creates[r].body.id)
              /\ (creates'[r].pc = "responded" /\ creates[r].pc # "responded"
                      /\ creates'[r].response.status = 201) =>
                    creates[r].pc = "save" /\ db' = Append(db, creates[r].body)
        /\ db' # db =>
              \E r \in DOMAIN creates :
                  /\ creates[r].pc = "save"
                  /\ creates'[r].response.status = 201
      ]_vars

\* a request with a free id and the short name of the stored player was
\* answered 409, and the store holds the stored player alone
C18_Witness ==
    \E r \in DOMAIN creates :
        /\ creates[r].pc = "responded"
        /\ ~HasId(db, creates[r].body.id)
        /\ creates[r].response =
               Conflict(ShortnameExistsMessage(creates[r].body.shortname))
        /\ Len(db) = 1

\* C19 as stated: no two stored players share an id, and no two stored
\* players share a short name.
C19_NoDuplicateIdOrShortname ==
    \A a, b \in 1..Len(db) :
        a # b => db[a].id # db[b].id /\ db[a].shortname # db[b].shortname

\* the players of a response body are all the stored players, each once
SamePlayers(data, store) ==
    /\ Len(data) = Len(store)
    /\ \A k \in 1..Len(store) :
          Cardinality({m \in 1..Len(data) : data[m] = ToPublicJSON(store[k])})
              = Cardinality({m \in 1..Len(store) : store[m] = store[k]})

\* C20 as stated: the response to GET /api/players has status 200 and the
\* body {success: true, data, count, message: "Joueurs récupérés avec
\* succès"}, where data lists all stored players by ascending data.rank and
\* count is their number.
C20_ListSortedByRank ==
    (http.pc = "responded" /\ http.method = "GET" /\ http.path = <<"api", "players">>) =>
        /\ http.response.status = 200
        /\ http.response.body.success = TRUE
        /\ http.response.body.message = "Joueurs récupérés avec succès"
        /\ http.response.body.count = Len(db)
        /\ SamePlayers(http.response.body.data, db)
        /\ \A k \in 1..(Len(http.response.body.data) - 1) :
              http.response.body.data[k].data.rank
                  <= http.response.body.data[k + 1].data.rank

----------------------------------------------------------------------------
(* The aggregates during the pass *)

\* the aggregates after the callback has been called for the first n records
AggregatesAfter(n) == ForEachPlayer(<<>>, players, 1, n)

\* every aggregate of cs has 0 <= wins <= total
WinsWithinTotal(cs) ==
    \A e \in 1..Len(cs) : 0 <= cs[e].wins /\ cs[e].wins <= cs[e].total

\* C22: after each call of the callback of the aggregation pass, that is for
\* every prefix of the records read, and in the aggregates the call keeps
\* afterwards, every country aggregate has 0 <= wins <= total (the last
\* entries of the records are all 0 or 1).
C22_WinsWithinTotal ==
    /\ (Found /\ pc # "check") =>
          \A n \in 0..Len(players) : WinsWithinTotal(AggregatesAfter(n))
    /\ WinsWithinTotal(countryStats)

\* the pass is over for three records with wins, two of them of one country
C22_Witness ==
    /\ pc = "select"
    /\ Len(players) = 3
    /\ Len(countryStats) = 2
    /\ \E e \in 1..2 : countryStats[e].wins = 6 /\ countryStats[e].total = 10

----------------------------------------------------------------------------
\* C23 as stated: the search for the best ratio visits the country aggregates
\* in the order in which each country code first appears in the records read.
C23_VisitedInFirstSeenOrder ==
    pc = "select" =>
        \A a, b \in 1..Len(ObjectEntries(countryStats)) :
            a < b => FirstIndex(ObjectEntries(countryStats)[a].code)
                        < FirstIndex(ObjectEntries(countryStats)[b].code)

----------------------------------------------------------------------------
(* The country reported *)

Best == outcome.stats.bestWinRateCountry

\* C24: on success the country reported is a country of the records read;
\* when no country has a win, it is the first country visited, with a code
\* that is not empty, winRate 0, wins 0, and the totalMatches and the players
\* of that country.
C24_RealCountrySelected ==
    Returned =>
        /\ Best.country \in Countries
        /\ Best.country # ""
        /\ (\A c \in Countries : WinsOf(c) = 0) =>
              /\ Best.country = ObjectEntries(countryStats)[1].code
              /\ Best.winRate = F(0)
              /\ Best.wins = 0
              /\ Best.totalMatches = TotalOf(Best.country)
              /\ Best.totalMatches > 0
              /\ Best.players = NamesOf(Best.country)

\* two countries without a win: the first one, of two players, is reported
C24_Witness ==
    /\ Returned
    /\ Len(countryStats) = 2
    /\ \A c \in Countries : WinsOf(c) = 0
    /\ Best.country = players[1].country.code
    /\ Best.totalMatches = 10

\* C26: on success wins, totalMatches and players of bestWinRateCountry are
\* those of the aggregate of the country it names, and winRate is the value
\* Math.round(ratio * 100) / 100 of the ratio wins / totalMatches * 100 of
\* that aggregate.
C26_BestFieldsOfOneCountry ==
    Returned =>
        \E e \in 1..Len(countryStats) :
            /\ countryStats[e].code = Best.country
            /\ Best.wins = countryStats[e].wins
            /\ Best.wins = WinsOf(Best.country)
            /\ Best.totalMatches = countryStats[e].total
            /\ Best.totalMatches = TotalOf(Best.country)
            /\ Best.players = countryStats[e].players
            /\ Best.players = NamesOf(Best.country)
            /\ Best.winRate = Round2(Ratio(countryStats[e]))

\* the country reported is the second one visited, which replaced the first
C26_Witness ==
    /\ Returned
    /\ Len(countryStats) = 2
    /\ Best.country = ObjectEntries(countryStats)[2].code
    /\ Best.wins > 0
    /\ Len(players) >= 3

\* the request is one of /:id with an accepted id, and getPlayerById has settled
ById == Route(http.method, http.path) = "byId"
Settled == ById /\ "read" \in DOMAIN http
StoredWith(id) == {k \in 1..Len(db) : db[k].id = id}

\* C21: getPlayerById returns the stored player with the id when one exists and
\* null when none exists; a rejected read whose message contains "buffering
\* timed out" yields null as well and every other rejected read is rethrown;
\* the route answers a player with 200 and its public fields, null with 404
\* "Joueur non trouvé" and a rethrown error with 500.
C21_GetPlayerById ==
    Settled =>
        /\ (http.read.kind = "resolved" /\ StoredWith(http.id) # {}) =>
               /\ http.result.kind = "player"
               /\ \E k \in StoredWith(http.id) : http.result.player = db[k]
        /\ (http.read.kind = "resolved" /\ StoredWith(http.id) = {}) =>
               http.result = [kind |-> "null"]
        /\ (http.read.kind = "rejected" /\ http.read.message = TimeoutMessage) =>
               http.result = [kind |-> "null"]
        /\ (http.read.kind = "rejected" /\ http.read.message # TimeoutMessage) =>
               http.result = [kind |-> "threw", message |-> http.read.message]
        /\ http.pc = "responded" =>
               /\ http.result.kind = "player" =>
                      /\ http.response.status = 200
                      /\ http.response.body.success
                      /\ http.response.body.data.id = http.id
               /\ http.result.kind = "null" =>
                      /\ http.response.status = 404
                      /\ http.response.body.error = "Joueur non trouvé"
               /\ http.result.kind = "threw" => http.response.status = 500

\* a stored player exists, the read timed out, and the route answered 404
C21_Witness ==
    /\ Settled
    /\ http.pc = "responded"
    /\ StoredWith(http.id) # {}
    /\ http.read.kind = "rejected"
    /\ http.read.message = TimeoutMessage
    /\ http.response.status = 404

StatsPath == http.path = <<"api", "players", "stats">>
LookedUp == \E e \in 1..Len(log) : log[e].message = "Recherche joueur par ID"

\* C25: GET /api/players/stats is handled by the statistics handler and never
\* by the validation of the id or the handler of /:id, so it is never answered
\* 400 "Paramètres d'URL invalides"; every other last segment that is not a
\* positive decimal number is answered that 400 with no lookup of a player.
C25_StatsBeforeId ==
    /\ StatsPath =>
           /\ http.pc \in {"received", "awaiting", "responded"}
           /\ ~LookedUp
           /\ http.pc = "responded" =>
                  /\ http.response # InvalidParamsResponse
                  /\ http.response = StatsResponse(outcome)
                  /\ pc \in {"done", "threw"}
    /\ (~StatsPath /\ http.path[3] \in {"abc", "-1", "0", "1.5"}) =>
           /\ http.pc \in {"received", "responded"}
           /\ ~LookedUp
           /\ pc = "idle"
           /\ http.pc = "responded" => http.response = InvalidParamsResponse

\* the statistics of a non-empty store have been answered to /api/players/stats
C25_Witness ==
    /\ StatsPath
    /\ http.pc = "responded"
    /\ http.response.status = 200
    /\ Len(db) = 2

\* The entries of the calls of connect(): the call, its attempts, its waits and
\* its end
IsCallEntry(e) == e.op \in {"connect", "mongoose.connect", "setTimeout", "returned", "threw"}
calls == SelectSeq(trace, IsCallEntry)
\* The end of the call whose entry is c[a]: the index of the first entry
\* returned or threw after it, past the entries while the call is in progress
EndOf(c, a) ==
    IF \E b \in (a + 1)..Len(c) : c[b].op \in {"returned", "threw"}
    THEN CHOOSE b \in (a + 1)..Len(c) :
             /\ c[b].op \in {"returned", "threw"}
             /\ \A d \in (a + 1)..(b - 1) : c[d].op \notin {"returned", "threw"}
    ELSE Len(c) + 1
ExpectedWaits == <<2000, 3000, 4500, 6750>>
InConnect == connectCall.pc # "none"

\* the call whose entry is c[a]: at most 5 attempts numbered from 1, a wait only
\* between two attempts, the waits 2000, 3000, 4500, 6750 and never above 30000,
\* a return right after an attempt (or with no attempt at all), a throw only
\* right after the fifth attempt
CallAsClaimed(c, a) ==
    LET end == EndOf(c, a)
        attempts == {b \in (a + 1)..(end - 1) : c[b].op = "mongoose.connect"}
        waits == {b \in (a + 1)..(end - 1) : c[b].op = "setTimeout"}
    IN  /\ Cardinality(attempts) <= 5
        /\ \A b \in attempts :
               /\ c[b].n = Cardinality({d \in attempts : d <= b})
               /\ (b + 1 <= Len(c) /\ c[b].n < 5) =>
                      c[b + 1].op \in {"setTimeout", "returned"}
        /\ Cardinality(waits) <= 4
        /\ \A b \in waits :
               /\ c[b].n = ExpectedWaits[Cardinality({d \in waits : d <= b})]
               /\ c[b].n <= 30000
               /\ c[b - 1].op = "mongoose.connect"
               /\ b + 1 <= Len(c) => c[b + 1].op = "mongoose.connect"
        /\ (end <= Len(c) /\ c[end].op = "threw") =>
               /\ Cardinality(attempts) = 5
               /\ c[end - 1].op = "mongoose.connect"
        /\ (end <= Len(c) /\ c[end].op = "returned") =>
               c[end - 1].op \in {"mongoose.connect", "connect"}

C27_Attempts ==
    LET c == calls
    IN  \A a \in DOMAIN c : c[a].op = "connect" => CallAsClaimed(c, a)

\* in every step that ends a call started while not connected: isConnected is
\* true after a return and still false after a throw
C27_End ==
    (InConnect /\ connectCall'.pc = "none") =>
        /\ trace'[Len(trace) + 1].op = "returned" => isConnected'
        /\ trace'[Len(trace) + 1].op = "threw" => (~isConnected /\ ~isConnected')

\* C27: one call of database.connect() made while not connected makes at most
\* 5 connection attempts and ends (or the process exits): it stops at the first
\* attempt that succeeds and sets isConnected, it throws after 5 failed attempts
\* with isConnected still false, and it waits only between failed attempts,
\* 2000 ms at first and 1.5 times longer each time, never above 30000 ms.
C27_ConnectTerminates ==
    /\ []C27_Attempts
    /\ [][C27_End]_vars
    /\ (InConnect ~> (~InConnect \/ server.exited))

\* a call has thrown after its fifth attempt and its fourth wait of 6750 ms
C27_Witness ==
    /\ ~isConnected
    /\ Len(calls) >= 11
    /\ calls[11].op = "threw"
    /\ calls[10].op = "mongoose.connect"
    /\ calls[10].n = 5
    /\ calls[9].op = "setTimeout"
    /\ calls[9].n = 6750

\* the entries a step adds to the trace
Added == SubSeq(trace', Len(trace) + 1, Len(trace'))
Registered == \E k \in DOMAIN handlers : handlers[k] = "database"

\* connect() while connected makes no attempt, disconnect() while not connected
\* makes no call of the driver, isConnected is false after disconnected or close
C28_CallsAndClosingEvents ==
    Len(Added) > 0 =>
        /\ (Added[1].op = "connect" /\ isConnected) =>
               /\ \A k \in DOMAIN Added : Added[k].op # "mongoose.connect"
               /\ Added[2].op = "returned"
               /\ connectCall' = connectCall
        /\ (Added[1].op = "disconnect" /\ ~isConnected) =>
               /\ Added[1].n = 0
               /\ disconnects' = disconnects
        /\ (Added[1].by = "driver" /\ Added[1].op \in {"disconnected", "close"}) =>
               ~isConnected'

\* C28 as stated: after any sequence of connect(), disconnect() and events of
\* the driver, connect() while connected makes no attempt, disconnect() while
\* not connected makes no call of the driver, isConnected is false after a
\* disconnected or close event and true after a connected or reconnected event.
C28_AsStated ==
    [][/\ C28_CallsAndClosingEvents
       /\ (Len(Added) > 0 /\ Added[1].by = "driver"
              /\ Added[1].op \in {"connected", "reconnected"}) => isConnected']_vars

\* C28, amended: the same, where isConnected is true after a connected or
\* reconnected event once connect() has succeeded (its first success registers
\* the listeners of the events).
C28_ConnectionState ==
    [][/\ C28_CallsAndClosingEvents
       /\ (Len(Added) > 0 /\ Added[1].by = "driver" /\ Registered
              /\ Added[1].op \in {"connected", "reconnected"}) => isConnected']_vars

\* connect() has succeeded, a disconnected event has cleared isConnected and a
\* reconnected event has set it again
C28_Witness ==
    /\ isConnected
    /\ Registered
    /\ Len(trace) >= 5
    /\ trace[Len(trace)].op = "reconnected"
    /\ trace[Len(trace) - 1].op = "disconnected"
    /\ trace[1].op = "connect"

Signalled == \E k \in DOMAIN trace : trace[k].by = "os"
StartupFailed == \E k \in DOMAIN trace : trace[k].op = "threw" /\ trace[k].by = "startServer"
RetryFailed == \E k \in DOMAIN trace : trace[k].op = "threw" /\ trace[k].by = "retry"
RetriesScheduled == {k \in DOMAIN trace : trace[k].op = "setTimeout" /\ trace[k].n = 10000}

\* C29: server.listen is called before the first connection attempt; when the
\* connection of the startup fails the process does not exit and the server is
\* not closed (short of a signal), exactly one connect() more is scheduled
\* 10 seconds later, and when that one fails too nothing more is scheduled and
\* the process still does not exit.
C29_StartupAndOneRetry ==
    /\ \A b \in DOMAIN trace :
           trace[b].op = "mongoose.connect" =>
               \E a \in 1..(b - 1) : trace[a].op = "server.listen"
    /\ ~Signalled => (~server.exited /\ ~server.closing /\ ~server.closed)
    /\ Cardinality(RetriesScheduled) = (IF StartupFailed THEN 1 ELSE 0)
    /\ \A k \in RetriesScheduled :
           trace[k - 1].op = "threw" /\ trace[k - 1].by = "startServer"
    /\ Cardinality({k \in DOMAIN trace : trace[k].op = "connect"
                                           /\ trace[k].by = "retry"})
           = (IF server.pc = "running" /\ server.timer = "fired" THEN 1 ELSE 0)
    /\ server.timer = "pending" =>
           (StartupFailed /\ ~RetryFailed /\ connectCall.pc = "none")
    /\ RetryFailed =>
           (server.timer = "fired" /\ connectCall.pc = "none" /\ ~isConnected)

\* both connections have failed, the server listens and the process is running
C29_Witness ==
    /\ StartupFailed
    /\ RetryFailed
    /\ server.listening
    /\ ~server.exited
    /\ ~Signalled

\* C30: when SIGTERM or SIGINT is handled by the shutdown of the server, the
\* HTTP server is closed first, disconnect() is called only after the server has
\* closed, and the process exits, with code 0, only after the server has closed
\* and a call of disconnect() has ended, whatever the order of the handlers of
\* the server and of the database connection.
C30_OrderedShutdown ==
    (\E k \in DOMAIN trace : trace[k].op = "server.close") =>
        /\ \A b \in DOMAIN trace :
               trace[b].op = "disconnect" =>
                   \E a \in 1..(b - 1) : trace[a].op = "closed"
        /\ \A b \in DOMAIN trace :
               trace[b].op = "process.exit" =>
                   /\ trace[b].n = 0
                   /\ \E a \in 1..(b - 1) : trace[a].op = "closed"
                   /\ \E a \in 1..(b - 1) :
                          \/ trace[a].op = "disconnect done"
                          \/ trace[a].op = "disconnect" /\ trace[a].n = 0
        /\ server.exited => (server.code = 0 /\ server.closed)

====
